---- MODULE Spec2Model ----
(***************************************************************************)
(* Verification model of the toktoken gateway: the OpenAI -> Anthropic SSE *)
(* stream translator (both copies of convertOpenAIStreamToAnthropic), the  *)
(* streaming route handlers with the backend byte-stream generator, and    *)
(* the request transformers that build the outbound OpenAI message list.   *)
(*                                                                         *)
(* Text is modelled as a sequence of one-character strings.  Positions are *)
(* 0-based as in the source: At(text, i) is text[i], Slice(text, a, b) is  *)
(* text.slice(a, b).                                                       *)
(***************************************************************************)
EXTENDS Integers, Sequences, FiniteSets, TLC

VARIABLES
    mode,                      \* which subsystem this behaviour exercises
    \* ---- stream translator (convertOpenAIStreamToAnthropic) ----
    impl,                      \* "utils" = src/utils/convert.ts, "types" = src/types/index.ts
    model,                     \* model name passed to the translator
    pc,                        \* position of the generator: "start", "run", "done"
    phase,                     \* what the upstream has sent so far
    nDeltas,                   \* number of delta chunks the upstream has sent
    sentTools,                 \* number of tool-call slots the upstream has opened
    usageSent,                 \* the upstream has sent its usage-only chunk
    inputText,                 \* concatenation of every choice.delta.content sent
    inputTokens,
    outputTokens,
    contentIndex,
    isFirstContent,
    toolCalls,
    finalStopReason,
    messageStopped,
    textBuffer,
    mistralToolCallsDetected,
    out,                       \* the Anthropic events yielded so far
    \* ---- streaming route handlers and the backend generator ----
    handler,                   \* which streaming handler serves the request
    backendGen,                \* which backend generator it consumes
    hpc,                       \* position of the handler
    genState,                  \* position of the backend generator
    pending,                   \* result of the generator the consumer has not yet taken
    reader,                    \* response.body.getReader(): "none", "locked", "released"
    exitPath,                  \* how the generator left its try block
    nChunks,                   \* upstream chunks received
    nPulls,                    \* reader.read() calls issued
    status,                    \* status line written to the client (0 = none yet)
    body,                      \* what has been written to the client after the headers
    ended,                     \* the response has been ended
    hijacked,                  \* reply.hijack() has been called
    clientClosed,              \* the client has closed its connection
    failure,                   \* how the upstream failed, "none" if it has not
    sseStartedAtFailure,       \* the 200 + SSE headers were out when it failed
    \* ---- request translation (routes) ----
    reqPath,                   \* "anthropic": POST /v1/messages, "openai": POST /v1/chat/completions
    reqImpl,                   \* which copy of the converters: "utils" or "types"
    useVisionPrompt,           \* ConvertOptions.useVisionPrompt (types copy only)
    anthropicBody,             \* the Anthropic request received
    openaiBody,                \* the OpenAI request received
    rpc,                       \* position of the route: "received", "sent"
    payload,                   \* the OpenAI request sent to the backend
    \* ---- tool-call id normalization ----
    idCopy,                    \* which copy of normalizeToolId: "utils" or "types"
    idMap,                     \* original id -> normalized id, for one request
    renorm,                    \* original id -> its normalized id normalized again
    \* ---- parseMistralToolCalls ----
    parseInput,                \* the text handed to the parser
    parseOutput,               \* what it returned, "pending" before the call
    \* ---- the upstream SSE bytes (convertOpenAIStreamToAnthropic's input) ----
    wire,                      \* every byte the upstream sends, in order
    wirePos,                   \* how many of them have been delivered in chunks
    \* ---- what the upstream has sent so far (stream translator) ----
    nContent,                  \* data lines that carried a non-empty delta.content
    upstreamCompletion,        \* usage.completion_tokens of the usage-only chunk, 0 if none
    \* ---- one request through a route handler ----
    entry,                     \* the handler that serves the request
    routeBody,                 \* the messages of the request
    wantStream,                \* body.stream
    visionBackend,             \* config.visionBackend is set
    backendUrl,                \* url of the configured backends
    backendApiKey,             \* apiKey of the configured backends
    authorization,             \* the inbound Authorization header
    xApiKey,                   \* the inbound x-api-key header
    rtpc,                      \* position of the handler
    backend,                   \* the backend chosen for the inference call
    auth,                      \* the Authorization header of the inference call
    posts,                     \* inference POSTs issued for the request
    visionCalls,               \* image analysis calls issued to the vision backend
    replyCode,                 \* status of the response (0 = none yet)
    errorSent,                 \* how the failure reached the caller: "body", "sse", "thrown"
    requestsTotal,             \* status label recorded in llm_requests_total
    upstream,                  \* where the upstream failed, "none" if it has not
    \* ---- unary response translation ----
    resCopy,                   \* which copy of openAIToAnthropic: "utils" or "types"
    openaiResponse,            \* the OpenAI response received from the backend
    anthropicResponse,         \* <<what openAIToAnthropic returned>>, <<>> before the call
    \* ---- objects of the request transformers ----
    heap,                      \* the objects allocated so far, by address
    cur,                       \* address of the payload the pipeline holds
    arg,                       \* address of the payload passed to the last transformer
    stage,                     \* how far the pipeline has come
    \* ---- TelemetryCollector ----
    telEnabled,                \* config.enabled
    usageLog,                  \* the in-memory log
    totalInputTokens,
    totalOutputTokens,
    requestCount,
    recorded,                  \* every usage recorded since the last reset, in order
    stats,                     \* <<what getStats returned>>, <<>> while nobody has asked
    \* ---- SSEEnricher inside handleAnthropicStreamingRequest ----
    upstreamText,              \* the text the backend sends, as tokens
    delivered,                 \* how many tokens of it reader.read() has handed over
    buffer,                    \* SSEEnricher.buffer
    enricherStats,             \* SSEEnricher.inputTokens, outputTokens, hasToolCalls
    yielded,                   \* concatenation of everything the generator yielded
    epc                        \* "idle", "reading", "done"

streamVars == <<impl, model, pc, phase, nDeltas, sentTools, usageSent, inputText, inputTokens,
                outputTokens, contentIndex, isFirstContent, toolCalls,
                finalStopReason, messageStopped, textBuffer,
                mistralToolCallsDetected, out>>

handlerVars == <<handler, backendGen, hpc, genState, pending, reader, exitPath,
                 nChunks, nPulls, status, body, ended, hijacked, clientClosed,
                 failure, sseStartedAtFailure>>

reqVars == <<reqPath, reqImpl, useVisionPrompt, anthropicBody, openaiBody, rpc, payload>>

idVars == <<idCopy, idMap, renorm>>

parseVars == <<parseInput, parseOutput>>

wireVars == <<wire, wirePos>>

tallyVars == <<nContent, upstreamCompletion>>

routeVars == <<entry, routeBody, wantStream, visionBackend, backendUrl, backendApiKey,
               authorization, xApiKey, rtpc, backend, auth, posts, visionCalls,
               replyCode, errorSent, requestsTotal, upstream>>

resVars == <<resCopy, openaiResponse, anthropicResponse>>

heapVars == <<heap, cur, arg, stage>>

telVars == <<telEnabled, usageLog, totalInputTokens, totalOutputTokens, requestCount,
             recorded, stats>>

enricherVars == <<upstreamText, delivered, buffer, enricherStats, yielded, epc>>

lateVars == <<heapVars, telVars, enricherVars>>

auxVars == <<wireVars, tallyVars, routeVars, resVars, lateVars>>

vars == <<mode, streamVars, handlerVars, reqVars, idVars, parseVars, auxVars>>

-----------------------------------------------------------------------------
(* Bounds of the model *)

MaxDeltas == 3
MaxTools == 2
MaxChunks == 2
MaxMsgs == 2

MaxIdLen == 2

MaxIds == 2

MaxSegs == 3

\* usages recorded after a reset whose values are chosen freely
MaxVaried == 2

\* usages recorded beyond the capacity of the telemetry log
MaxExtra == 2

\* SSE frames in the text the backend sends to the enricher
MaxFrames == 2

-----------------------------------------------------------------------------
(* Text helpers (JavaScript string operations) *)

At(text, i) == text[i + 1]

Slice(text, a, b) == SubSeq(text, a + 1, b)

SliceFrom(text, a) == SubSeq(text, a + 1, Len(text))

Max(a, b) == IF a >= b THEN a ELSE b

Min(a, b) == IF a <= b THEN a ELSE b

\* String.prototype.indexOf(sub, from): least position >= from, or -1
IndexOf(text, sub, from) ==
    LET hits == {i \in from..(Len(text) - Len(sub)) :
                     Slice(text, i, i + Len(sub)) = sub}
    IN  IF hits = {} THEN -1 ELSE CHOOSE i \in hits : \A j \in hits : i <= j

Includes(text, sub) == IndexOf(text, sub, 0) # -1

UpperChars == <<"A","B","C","D","E","F","G","H","I","J","K","L","M",
                "N","O","P","Q","R","S","T","U","V","W","X","Y","Z">>

LowerChars == <<"a","b","c","d","e","f","g","h","i","j","k","l","m",
                "n","o","p","q","r","s","t","u","v","w","x","y","z">>

DigitChars == <<"0","1","2","3","4","5","6","7","8","9">>

Range(f) == {f[i] : i \in DOMAIN f}

ToLowerChar(c) ==
    IF c \in Range(UpperChars)
    THEN LowerChars[CHOOSE i \in 1..26 : UpperChars[i] = c]
    ELSE c

ToLowerCase(text) == [i \in DOMAIN text |-> ToLowerChar(text[i])]

WordChars == Range(UpperChars) \cup Range(LowerChars) \cup Range(DigitChars) \cup {"_"}

-----------------------------------------------------------------------------
(* JSON.parse, as far as the parser needs it: does the text parse?         *)
(* Covers objects, arrays, strings with backslash escapes, integers, the   *)
(* literals true/false/null and blanks between tokens.  Each operator      *)
(* returns the position after the parsed item, or -1 on a syntax error.    *)

RECURSIVE SkipWs(_, _)
SkipWs(text, i) ==
    IF i < Len(text) /\ At(text, i) = " " THEN SkipWs(text, i + 1) ELSE i

RECURSIVE JsonString(_, _)
\* i is the position after the opening quote
JsonString(text, i) ==
    IF i >= Len(text) THEN -1
    ELSE IF At(text, i) = "\"" THEN i + 1
    ELSE IF At(text, i) = "\\"
         THEN (IF i + 1 < Len(text)
                  /\ At(text, i + 1) \in {"\"", "\\", "/", "b", "f", "n", "r", "t"}
               THEN JsonString(text, i + 2) ELSE -1)
    ELSE JsonString(text, i + 1)

RECURSIVE JsonDigits(_, _)
JsonDigits(text, i) ==
    IF i < Len(text) /\ At(text, i) \in Range(DigitChars)
    THEN JsonDigits(text, i + 1) ELSE i

JsonNumber(text, i) ==
    LET j == IF i < Len(text) /\ At(text, i) = "-" THEN i + 1 ELSE i
    IN  IF j >= Len(text) \/ At(text, j) \notin Range(DigitChars) THEN -1
        ELSE IF At(text, j) = "0" THEN j + 1
        ELSE JsonDigits(text, j)

JsonLiteral(text, i, lit) ==
    IF i + Len(lit) <= Len(text) /\ Slice(text, i, i + Len(lit)) = lit
    THEN i + Len(lit) ELSE -1

RECURSIVE JsonValue(_, _)
RECURSIVE JsonMembers(_, _)
RECURSIVE JsonElements(_, _)

\* members of an object; i is the position of the next key
JsonMembers(text, i) ==
    LET k == SkipWs(text, i)
    IN  IF k >= Len(text) \/ At(text, k) # "\"" THEN -1
        ELSE LET e == JsonString(text, k + 1)
                 c == IF e = -1 THEN -1 ELSE SkipWs(text, e)
             IN  IF c = -1 \/ c >= Len(text) \/ At(text, c) # ":" THEN -1
                 ELSE LET v == JsonValue(text, c + 1)
                          n == IF v = -1 THEN -1 ELSE SkipWs(text, v)
                      IN  IF n = -1 \/ n >= Len(text) THEN -1
                          ELSE IF At(text, n) = "}" THEN n + 1
                          ELSE IF At(text, n) = "," THEN JsonMembers(text, n + 1)
                          ELSE -1

\* elements of an array; i is the position of the next element
JsonElements(text, i) ==
    LET v == JsonValue(text, i)
        n == IF v = -1 THEN -1 ELSE SkipWs(text, v)
    IN  IF n = -1 \/ n >= Len(text) THEN -1
        ELSE IF At(text, n) = "]" THEN n + 1
        ELSE IF At(text, n) = "," THEN JsonElements(text, n + 1)
        ELSE -1

JsonValue(text, i) ==
    LET k == SkipWs(text, i)
    IN  IF k >= Len(text) THEN -1
        ELSE LET c == At(text, k)
             IN  IF c = "{"
                 THEN (LET m == SkipWs(text, k + 1)
                       IN  IF m < Len(text) /\ At(text, m) = "}" THEN m + 1
                           ELSE JsonMembers(text, k + 1))
                 ELSE IF c = "["
                 THEN (LET m == SkipWs(text, k + 1)
                       IN  IF m < Len(text) /\ At(text, m) = "]" THEN m + 1
                           ELSE JsonElements(text, k + 1))
                 ELSE IF c = "\"" THEN JsonString(text, k + 1)
                 ELSE IF c = "-" \/ c \in Range(DigitChars) THEN JsonNumber(text, k)
                 ELSE IF c = "t" THEN JsonLiteral(text, k, <<"t","r","u","e">>)
                 ELSE IF c = "f" THEN JsonLiteral(text, k, <<"f","a","l","s","e">>)
                 ELSE IF c = "n" THEN JsonLiteral(text, k, <<"n","u","l","l">>)
                 ELSE -1

\* TRUE iff JSON.parse(text) returns instead of throwing
JsonParses(text) ==
    LET e == JsonValue(text, 0)
    IN  e # -1 /\ SkipWs(text, e) = Len(text)

-----------------------------------------------------------------------------
(* Mistral native tool-call parser (src/types/index.ts) *)

Marker == <<"[","T","O","O","L","_","C","A","L","L","S","]">>

Null == [isNull |-> TRUE, value |-> <<>>]

Some(v) == [isNull |-> FALSE, value |-> v]

RECURSIVE ScanBalanced(_, _, _, _, _, _)
\* the for loop of extractBalancedJson, entered at position i
ScanBalanced(text, startIndex, i, depth, inString, escape) ==
    IF i >= Len(text) THEN Null
    ELSE LET char == At(text, i)
         IN  IF escape
             THEN ScanBalanced(text, startIndex, i + 1, depth, inString, FALSE)
             ELSE IF char = "\\" /\ inString
             THEN ScanBalanced(text, startIndex, i + 1, depth, inString, TRUE)
             ELSE IF char = "\""
             THEN ScanBalanced(text, startIndex, i + 1, depth, ~inString, FALSE)
             ELSE IF ~inString /\ char = "{"
             THEN ScanBalanced(text, startIndex, i + 1, depth + 1, inString, FALSE)
             ELSE IF ~inString /\ char = "}"
             THEN (IF depth - 1 = 0
                   THEN Some(Slice(text, startIndex, i + 1))
                   ELSE ScanBalanced(text, startIndex, i + 1, depth - 1, inString, FALSE))
             ELSE ScanBalanced(text, startIndex, i + 1, depth, inString, FALSE)

extractBalancedJson(text, startIndex) ==
    IF startIndex >= Len(text) \/ At(text, startIndex) # "{" THEN Null
    ELSE ScanBalanced(text, startIndex, startIndex, 0, FALSE, FALSE)

RECURSIVE WordEnd(_, _)
\* end of the longest run of \w characters that starts at i
WordEnd(text, i) ==
    IF i < Len(text) /\ At(text, i) \in WordChars THEN WordEnd(text, i + 1) ELSE i

RECURSIVE ParseLoop_Abort(_, _, _)
ParseLoop_Abort(text, searchStart, found) ==
    LET markerIndex == IndexOf(text, Marker, searchStart)
        afterMarker == markerIndex + Len(Marker)
        nameEnd == WordEnd(text, afterMarker)
        jsonStr == extractBalancedJson(text, nameEnd)
    IN  IF markerIndex = -1 \/ nameEnd = afterMarker \/ jsonStr.isNull
           \/ ~JsonParses(jsonStr.value)
        THEN found
        ELSE ParseLoop_Abort(text, nameEnd + Len(jsonStr.value),
                 Append(found, [name |-> Slice(text, afterMarker, nameEnd),
                                arguments |-> jsonStr.value]))

RECURSIVE ParseLoop(_, _, _)
\* the while (true) loop of parseMistralToolCalls
ParseLoop(text, searchStart, found) ==
    LET markerIndex == IndexOf(text, Marker, searchStart)
    IN  IF markerIndex = -1 THEN found
        ELSE LET afterMarker == markerIndex + Len(Marker)
                 nameEnd == WordEnd(text, afterMarker)
             IN  IF nameEnd = afterMarker
                 THEN ParseLoop(text, afterMarker, found)
                 ELSE LET toolName == Slice(text, afterMarker, nameEnd)
                          jsonStart == afterMarker + Len(toolName)
                          jsonStr == extractBalancedJson(text, jsonStart)
                      IN  IF jsonStr.isNull
                          THEN ParseLoop(text, jsonStart, found)
                          ELSE ParseLoop(text, jsonStart + Len(jsonStr.value),
                                   IF JsonParses(jsonStr.value)
                                   THEN Append(found, [name |-> toolName,
                                                       arguments |-> jsonStr.value])
                                   ELSE found)

\* the list of parsed calls; the empty list stands for the source's null
parseMistralToolCalls(text) ==
    IF ~Includes(text, Marker) THEN <<>> ELSE ParseLoop(text, 0, <<>>)

isMistralModel_Never(m) == FALSE

isMistralModel(m) ==
    LET lowerModel == ToLowerCase(m)
    IN  \/ Includes(lowerModel, <<"m","i","s","t","r","a","l">>)
        \/ Includes(lowerModel, <<"d","e","v","s","t","r","a","l">>)
        \/ Includes(lowerModel, <<"c","o","d","e","s","t","r","a","l">>)

-----------------------------------------------------------------------------
(* Anthropic SSE events, as the translator yields them.  Fields an event   *)
(* does not carry hold "" / <<>> / -1.                                     *)

Event(type, index, kind, name, text, stop_reason, input_tokens, output_tokens) ==
    [type |-> type, index |-> index, kind |-> kind, name |-> name, text |-> text,
     stop_reason |-> stop_reason, input_tokens |-> input_tokens,
     output_tokens |-> output_tokens]

MessageStart(estimated) ==
    Event("message_start", -1, "", <<>>, <<>>, "null", estimated, 0)

BlockStart(index, kind, name) ==
    Event("content_block_start", index, kind, name, <<>>, "", -1, -1)

BlockDelta(index, kind, text) ==
    Event("content_block_delta", index, kind, <<>>, text, "", -1, -1)

BlockStop(index) ==
    Event("content_block_stop", index, "", <<>>, <<>>, "", -1, -1)

MessageDelta(stop_reason, input_tokens, output_tokens) ==
    Event("message_delta", -1, "", <<>>, <<>>, stop_reason, input_tokens, output_tokens)

MessageStop ==
    Event("message_stop", -1, "", <<>>, <<>>, "", -1, -1)

(* An upstream chunk after JSON.parse.  finish_reason "" is null; a usage  *)
(* field of 0 is the falsy value the source tests for.                     *)
Chunk(hasUsage, prompt, completion, hasChoice, content, tool_calls, finish_reason) ==
    [hasUsage |-> hasUsage, prompt_tokens |-> prompt, completion_tokens |-> completion,
     hasChoice |-> hasChoice, content |-> content, tool_calls |-> tool_calls,
     finish_reason |-> finish_reason]

ToolCallDelta(index, id, name, arguments) ==
    [index |-> index, id |-> id, name |-> name, arguments |-> arguments]

-----------------------------------------------------------------------------
(* The translator's locals as one record, so that the body of the loop can *)
(* be written as a function of (locals, chunk).                            *)

Locals ==
    [inputTokens |-> inputTokens, outputTokens |-> outputTokens,
     contentIndex |-> contentIndex, isFirstContent |-> isFirstContent,
     toolCalls |-> toolCalls, finalStopReason |-> finalStopReason,
     messageStopped |-> messageStopped, textBuffer |-> textBuffer,
     mistralToolCallsDetected |-> mistralToolCallsDetected, out |-> out]

Emit(s, e) == [s EXCEPT !.out = Append(@, e)]

\* if (chunk.usage) { inputTokens = ...; if (completion_tokens) outputTokens = ... }
UsageStep(s, c) ==
    IF c.hasUsage
    THEN [s EXCEPT !.inputTokens = IF c.prompt_tokens # 0 THEN c.prompt_tokens ELSE @,
                   !.outputTokens = IF c.completion_tokens # 0
                                    THEN c.completion_tokens ELSE @]
    ELSE s

\* open the text block on the first text that is emitted
OpenTextBlock(s) ==
    IF s.isFirstContent
    THEN [Emit(s, BlockStart(s.contentIndex, "text", <<>>)) EXCEPT !.isFirstContent = FALSE]
    ELSE s

EmitText(s, text) ==
    LET s1 == OpenTextBlock(s)
    IN  Emit(s1, BlockDelta(s1.contentIndex, "text_delta", text))

\* body of for (const tc of delta.tool_calls)
ToolCallStep(s, tc) ==
    IF tc.index \notin DOMAIN s.toolCalls
    THEN LET s1 == [s EXCEPT !.toolCalls = @ @@ (tc.index :>
                        [id |-> tc.id, name |-> tc.name, arguments |-> tc.arguments])]
             s2 == IF ~s1.isFirstContent
                   THEN [Emit(s1, BlockStop(s1.contentIndex))
                            EXCEPT !.contentIndex = @ + 1]
                   ELSE s1
             s3 == [s2 EXCEPT !.isFirstContent = FALSE]
         IN  Emit(s3, BlockStart(s3.contentIndex + tc.index, "tool_use", tc.name))
    ELSE IF tc.arguments # <<>>
    THEN Emit([s EXCEPT !.toolCalls[tc.index].arguments = @ \o tc.arguments],
              BlockDelta(s.contentIndex + tc.index, "input_json_delta", tc.arguments))
    ELSE s

RECURSIVE ToolCallsLoop(_, _)
ToolCallsLoop(s, tcs) ==
    IF tcs = <<>> THEN s ELSE ToolCallsLoop(ToolCallStep(s, Head(tcs)), Tail(tcs))

MapStopReason(finish_reason) ==
    IF finish_reason = "tool_calls" THEN "tool_use"
    ELSE IF finish_reason = "length" THEN "max_tokens"
    ELSE "end_turn"

-----------------------------------------------------------------------------
(* convertOpenAIStreamToAnthropic, src/utils/convert.ts: the body of       *)
(* for (const line of lines) for a data line that parsed to chunk c.       *)

ProcessLineUtils(s, c) ==
    LET s0 == UsageStep(s, c)
    IN  IF ~c.hasChoice
        THEN IF c.hasUsage /\ s0.finalStopReason # "null" /\ ~s0.messageStopped
             THEN LET finalOutputTokens == Max(s0.outputTokens, c.completion_tokens)
                      shownInput == IF c.prompt_tokens # 0 THEN c.prompt_tokens
                                    ELSE s0.inputTokens
                  IN  [Emit(Emit(s0, MessageDelta(s0.finalStopReason, shownInput,
                                                  finalOutputTokens)),
                            MessageStop)
                          EXCEPT !.messageStopped = TRUE]
             ELSE s0
        ELSE LET s1 == IF c.content # <<>> THEN EmitText(s0, c.content) ELSE s0
                 s2 == ToolCallsLoop(s1, c.tool_calls)
             IN  IF c.finish_reason # ""
                 THEN [(IF ~s2.isFirstContent
                        THEN Emit(s2, BlockStop(s2.contentIndex)) ELSE s2)
                          EXCEPT !.finalStopReason = MapStopReason(c.finish_reason)]
                 ELSE s2

-----------------------------------------------------------------------------
(* convertOpenAIStreamToAnthropic, src/types/index.ts (buffers text of     *)
(* Mistral-family models to detect an inline [TOOL_CALLS]).                *)

SafeWindow == 20

\* if (delta.content) {...}; skip is TRUE where the source says continue
ContentStepTypes(s, c, checkMistral) ==
    IF c.content = <<>> THEN [s |-> s, skip |-> FALSE]
    ELSE IF checkMistral
    THEN LET s1 == [s EXCEPT !.textBuffer = @ \o c.content]
         IN  IF Includes(s1.textBuffer, Marker)
             THEN [s |-> [s1 EXCEPT !.mistralToolCallsDetected = TRUE,
                                    !.outputTokens = @ + 1],
                   skip |-> TRUE]
             ELSE LET n == Len(s1.textBuffer)
                      s2 == IF ~s1.mistralToolCallsDetected /\ n > SafeWindow
                            THEN EmitText([s1 EXCEPT !.textBuffer =
                                              SliceFrom(s1.textBuffer, n - SafeWindow)],
                                          Slice(s1.textBuffer, 0, n - SafeWindow))
                            ELSE s1
                  IN  [s |-> [s2 EXCEPT !.outputTokens = @ + 1], skip |-> FALSE]
    ELSE [s |-> [EmitText(s, c.content) EXCEPT !.outputTokens = @ + 1],
          skip |-> FALSE]

FlushTextBuffer_Dropped(s, checkMistral) == s

\* else if (checkMistral && textBuffer && !mistralToolCallsDetected): the text
\* still held back in the window is emitted when the stream finishes
FlushTextBuffer(s, checkMistral) ==
    IF checkMistral /\ s.textBuffer # <<>> /\ ~s.mistralToolCallsDetected
    THEN EmitText(s, s.textBuffer)
    ELSE s

EmitParsedTools_None(s, parsedTools, i) == s

RECURSIVE EmitParsedTools(_, _, _)
\* for (let i = 0; i < parsedTools.length; i++): a start and a stop per call
EmitParsedTools(s, parsedTools, i) ==
    IF i >= Len(parsedTools) THEN s
    ELSE EmitParsedTools(
             Emit(Emit(s, BlockStart(s.contentIndex + i, "tool_use",
                                     parsedTools[i + 1].name)),
                  BlockStop(s.contentIndex + i)),
             parsedTools, i + 1)

\* if (choice.finish_reason) {...}
FinishStepTypes(s, c, checkMistral) ==
    IF c.finish_reason = "" THEN s
    ELSE LET parsedTools == IF checkMistral /\ s.mistralToolCallsDetected
                                          /\ s.textBuffer # <<>>
                            THEN parseMistralToolCalls(s.textBuffer) ELSE <<>>
             inline == Len(parsedTools) > 0
             s1 == IF checkMistral /\ s.mistralToolCallsDetected /\ s.textBuffer # <<>>
                   THEN (IF inline
                         THEN LET a == IF ~s.isFirstContent
                                       THEN [Emit(s, BlockStop(s.contentIndex))
                                                EXCEPT !.contentIndex = @ + 1]
                                       ELSE s
                              IN  [EmitParsedTools(a, parsedTools, 0)
                                      EXCEPT !.isFirstContent = TRUE]
                         ELSE s)
                   ELSE FlushTextBuffer(s, checkMistral)
             s2 == IF ~s1.isFirstContent
                   THEN Emit(s1, BlockStop(s1.contentIndex)) ELSE s1
             stopReason == IF inline THEN "tool_use" ELSE MapStopReason(c.finish_reason)
         IN  Emit(Emit(s2, MessageDelta(stopReason, -1, s2.outputTokens)), MessageStop)

ProcessLineTypes(s, c, checkMistral) ==
    LET s0 == UsageStep(s, c)
    IN  IF ~c.hasChoice
        THEN IF c.hasUsage /\ c.completion_tokens # 0
             THEN Emit(s0, MessageDelta("", -1, c.completion_tokens))
             ELSE s0
        ELSE LET r == ContentStepTypes(s0, c, checkMistral)
             IN  IF r.skip THEN r.s
                 ELSE FinishStepTypes(ToolCallsLoop(r.s, c.tool_calls), c, checkMistral)

\* the loop body of whichever copy of the translator is running
ProcessLine(s, c) ==
    IF impl = "utils" THEN ProcessLineUtils(s, c)
    ELSE ProcessLineTypes(s, c, isMistralModel(model))

-----------------------------------------------------------------------------
(* The upstream: a legal OpenAI SSE stream is zero or more content or      *)
(* tool-call delta chunks, one finish_reason chunk, optionally a usage-only*)
(* chunk, then [DONE].  Each action below is the upstream sending one data *)
(* line and the translator running its loop body on it.                    *)

PieceShort == <<"H","i">>

PieceLong == <<"T","h","e"," ","q","u","i","c","k"," ","b","r","o","w","n",
               " ","f","o","x"," ","j","u">>

PieceMarkerHead == <<"[","T","O","O","L","_">>

PieceMarkerTail == <<"C","A","L","L","S","]">>

PieceTailCall == <<"C","A","L","L","S","]","f","{","}">>

PieceTailSearch == <<"C","A","L","L","S","]","s","e","a","r","c","h">>

PieceSearchArgs == <<"{","\"","q","\"",":","\"","x","\"","}">>

PieceInlineCall == <<"[","T","O","O","L","_","C","A","L","L","S","]","f","{","}">>

ContentPieces == {PieceShort, PieceLong, PieceMarkerHead, PieceMarkerTail, PieceTailCall,
                  PieceTailSearch, PieceSearchArgs, PieceInlineCall}

ArgPieces == {<<>>, <<"{","}">>}

ModelNames == {<<"g","p","t">>, <<"D","e","v","s","t","r","a","l">>}

EstimatedInputs == {10}

UsageCompletions == {0, 2}

UsagePrompts == {7}

FinishReasons == {"stop", "tool_calls", "length"}

ToolName(k) == <<"f","n">> \o <<DigitChars[k + 1]>>

ToolId(k) == <<"c","a","l","l","_">> \o <<DigitChars[k + 1]>>

RequestIdle ==
    /\ reqPath = "none"
    /\ reqImpl = "none"
    /\ useVisionPrompt = FALSE
    /\ anthropicBody = <<>>
    /\ openaiBody = <<>>
    /\ rpc = "idle"
    /\ payload = <<>>

IdsIdle ==
    /\ idCopy = "none"
    /\ idMap = <<>>
    /\ renorm = <<>>

ParseIdle ==
    /\ parseInput = <<>>
    /\ parseOutput = "idle"

WireIdle ==
    /\ wire = <<>>
    /\ wirePos = 0

\* header and key values: undefined, the empty string, a bare key, Bearer + key
Undefined == [scheme |-> "undefined", token |-> ""]

Bare(token) == [scheme |-> "", token |-> token]

Bearer(token) == [scheme |-> "Bearer", token |-> token]

RouteIdle ==
    /\ entry = "none"
    /\ routeBody = <<>>
    /\ wantStream = FALSE
    /\ visionBackend = FALSE
    /\ backendUrl = <<>>
    /\ backendApiKey = Undefined
    /\ authorization = Undefined
    /\ xApiKey = Undefined
    /\ rtpc = "idle"
    /\ backend = "none"
    /\ auth = Undefined
    /\ posts = 0
    /\ visionCalls = 0
    /\ replyCode = 0
    /\ errorSent = "none"
    /\ requestsTotal = "none"
    /\ upstream = "none"

TallyIdle ==
    /\ nContent = 0
    /\ upstreamCompletion = 0

ResIdle ==
    /\ resCopy = "none"
    /\ openaiResponse = <<>>
    /\ anthropicResponse = <<>>

HeapIdle ==
    /\ heap = <<>>
    /\ cur = 0
    /\ arg = 0
    /\ stage = "none"

TelIdle ==
    /\ telEnabled = FALSE
    /\ usageLog = <<>>
    /\ totalInputTokens = 0
    /\ totalOutputTokens = 0
    /\ requestCount = 0
    /\ recorded = <<>>
    /\ stats = <<>>

EnricherIdle ==
    /\ upstreamText = <<>>
    /\ delivered = 0
    /\ buffer = <<>>
    /\ enricherStats = <<>>
    /\ yielded = <<>>
    /\ epc = "idle"

LateIdle == HeapIdle /\ TelIdle /\ EnricherIdle

AuxIdle == WireIdle /\ TallyIdle /\ RouteIdle /\ ResIdle /\ LateIdle

HandlerIdle ==
    /\ handler = "none"
    /\ backendGen = "none"
    /\ hpc = "idle"
    /\ genState = "idle"
    /\ pending = "none"
    /\ reader = "none"
    /\ exitPath = "none"
    /\ nChunks = 0
    /\ nPulls = 0
    /\ status = 0
    /\ body = <<>>
    /\ ended = FALSE
    /\ hijacked = FALSE
    /\ clientClosed = FALSE
    /\ failure = "none"
    /\ sseStartedAtFailure = FALSE

Apply(r) ==
    /\ inputTokens' = r.inputTokens
    /\ outputTokens' = r.outputTokens
    /\ contentIndex' = r.contentIndex
    /\ isFirstContent' = r.isFirstContent
    /\ toolCalls' = r.toolCalls
    /\ finalStopReason' = r.finalStopReason
    /\ messageStopped' = r.messageStopped
    /\ textBuffer' = r.textBuffer
    /\ mistralToolCallsDetected' = r.mistralToolCallsDetected
    /\ out' = r.out

StreamIdle ==
    /\ impl = "utils"
    /\ model = <<>>
    /\ pc = "idle"
    /\ phase = "idle"
    /\ nDeltas = 0
    /\ sentTools = 0
    /\ usageSent = FALSE
    /\ inputText = <<>>
    /\ inputTokens = 0
    /\ outputTokens = 0
    /\ contentIndex = 0
    /\ isFirstContent = TRUE
    /\ toolCalls = <<>>
    /\ finalStopReason = "null"
    /\ messageStopped = FALSE
    /\ textBuffer = <<>>
    /\ mistralToolCallsDetected = FALSE
    /\ out = <<>>

InitStream ==
    /\ mode = "stream"
    /\ HandlerIdle
    /\ RequestIdle
    /\ IdsIdle
    /\ ParseIdle
    /\ AuxIdle
    /\ impl \in {"utils", "types"}
    /\ model \in ModelNames
    /\ pc = "start"
    /\ phase = "deltas"
    /\ nDeltas = 0
    /\ sentTools = 0
    /\ usageSent = FALSE
    /\ inputText = <<>>
    /\ inputTokens \in EstimatedInputs
    /\ outputTokens = 0
    /\ contentIndex = 0
    /\ isFirstContent = TRUE
    /\ toolCalls = <<>>
    /\ finalStopReason = "null"
    /\ messageStopped = FALSE
    /\ textBuffer = <<>>
    /\ mistralToolCallsDetected = FALSE
    /\ out = <<>>

\* first pull of the generator: message_start is yielded before any read
Start ==
    /\ mode \in {"stream", "wire"} /\ pc = "start"
    /\ pc' = "run"
    /\ out' = Append(out, MessageStart(inputTokens))
    /\ UNCHANGED <<reqVars, idVars, parseVars, auxVars, handlerVars, mode, impl, model, phase, nDeltas, sentTools, usageSent, inputText,
                   inputTokens, outputTokens, contentIndex, isFirstContent,
                   toolCalls, finalStopReason, messageStopped, textBuffer,
                   mistralToolCallsDetected>>

ContentDelta ==
    /\ mode = "stream" /\ pc = "run" /\ phase = "deltas" /\ nDeltas < MaxDeltas
    /\ \E t \in ContentPieces :
          /\ Apply(ProcessLine(Locals, Chunk(FALSE, 0, 0, TRUE, t, <<>>, "")))
          /\ inputText' = inputText \o t
    /\ nDeltas' = nDeltas + 1
    /\ nContent' = nContent + 1
    /\ UNCHANGED <<reqVars, idVars, parseVars, wireVars, routeVars, resVars, lateVars, upstreamCompletion, handlerVars, mode, impl, model, pc, phase, sentTools, usageSent>>

\* a delta for slot k: the delta that opens the slot carries id and name
ToolDelta ==
    /\ mode = "stream" /\ pc = "run" /\ phase = "deltas" /\ nDeltas < MaxDeltas
    /\ \E k \in 0..(MaxTools - 1), a \in ArgPieces :
          /\ k <= sentTools
          /\ LET tc == IF k = sentTools
                       THEN ToolCallDelta(k, ToolId(k), ToolName(k), a)
                       ELSE ToolCallDelta(k, <<>>, <<>>, a)
             IN  Apply(ProcessLine(Locals, Chunk(FALSE, 0, 0, TRUE, <<>>, <<tc>>, "")))
          /\ sentTools' = IF k = sentTools THEN sentTools + 1 ELSE sentTools
    /\ nDeltas' = nDeltas + 1
    /\ UNCHANGED <<reqVars, idVars, parseVars, auxVars, handlerVars, mode, impl, model, pc, phase, usageSent, inputText>>

Finish ==
    /\ mode = "stream" /\ pc = "run" /\ phase = "deltas"
    /\ \E fr \in FinishReasons :
          Apply(ProcessLine(Locals, Chunk(FALSE, 0, 0, TRUE, <<>>, <<>>, fr)))
    /\ phase' = "finished"
    /\ UNCHANGED <<reqVars, idVars, parseVars, auxVars, handlerVars, mode, impl, model, pc, nDeltas, sentTools, usageSent, inputText>>

\* the usage-only chunk: choices is empty
UsageChunk ==
    /\ mode = "stream" /\ pc = "run" /\ phase = "finished"
    /\ \E p \in UsagePrompts, ct \in UsageCompletions :
          /\ Apply(ProcessLine(Locals, Chunk(TRUE, p, ct, FALSE, <<>>, <<>>, "")))
          /\ upstreamCompletion' = ct
    /\ phase' = "usage"
    /\ usageSent' = TRUE
    /\ UNCHANGED <<reqVars, idVars, parseVars, wireVars, routeVars, resVars, lateVars, nContent, handlerVars, mode, impl, model, pc, nDeltas, sentTools, inputText>>

\* data: [DONE] -- if (data === '[DONE]') continue
DoneLine ==
    /\ mode = "stream" /\ pc = "run" /\ phase \in {"finished", "usage"}
    /\ phase' = "done"
    /\ UNCHANGED <<reqVars, idVars, parseVars, auxVars, handlerVars, mode, impl, model, pc, nDeltas, sentTools, usageSent, inputText,
                   inputTokens, outputTokens, contentIndex, isFirstContent,
                   toolCalls, finalStopReason, messageStopped, textBuffer,
                   mistralToolCallsDetected, out>>

\* the upstream generator is exhausted: for await ends and the translator returns
StreamEnd ==
    /\ mode = "stream" /\ pc = "run" /\ phase = "done"
    /\ pc' = "done"
    /\ UNCHANGED <<reqVars, idVars, parseVars, auxVars, handlerVars, mode, impl, model, phase, nDeltas, sentTools, usageSent, inputText,
                   inputTokens, outputTokens, contentIndex, isFirstContent,
                   toolCalls, finalStopReason, messageStopped, textBuffer,
                   mistralToolCallsDetected, out>>

NextStream == Start \/ ContentDelta \/ ToolDelta \/ Finish \/ UsageChunk
                 \/ DoneLine \/ StreamEnd

SpecStream == InitStream /\ [][NextStream]_vars

-----------------------------------------------------------------------------
(* Properties of the translated stream *)

CountType(events, t) == Cardinality({i \in DOMAIN events : events[i].type = t})

CountAt(events, t, idx) ==
    Cardinality({i \in DOMAIN events : events[i].type = t /\ events[i].index = idx})

BlockIndexes(events) ==
    {events[i].index : i \in {j \in DOMAIN events :
        events[j].type \in {"content_block_start", "content_block_stop"}}}

HasType(events, t) == \E i \in DOMAIN events : events[i].type = t

RECURSIVE TextOf(_)
\* concatenation of the text of every text_delta, in emission order
TextOf(events) ==
    IF events = <<>> THEN <<>>
    ELSE (IF Head(events).type = "content_block_delta" /\ Head(events).kind = "text_delta"
          THEN Head(events).text ELSE <<>>) \o TextOf(Tail(events))

EmitsToolUse(events) ==
    \E i \in DOMAIN events :
        events[i].type = "content_block_start" /\ events[i].kind = "tool_use"

\* C1: when the translation of a legal upstream stream has ended, the events
\* hold exactly one message_start and exactly one message_stop, and for every
\* block index as many content_block_stop as content_block_start, one each.
C1_StreamWellFormed ==
    (mode = "stream" /\ pc = "done") =>
        /\ CountType(out, "message_start") = 1
        /\ CountType(out, "message_stop") = 1
        /\ \A idx \in BlockIndexes(out) :
              /\ CountAt(out, "content_block_start", idx) = 1
              /\ CountAt(out, "content_block_stop", idx) = 1

\* C2: a translated stream ends with exactly one message_delta immediately
\* followed by exactly one message_stop, and nothing is emitted after
\* message_stop.
C2_EndsWithDeltaThenStop ==
    /\ \A i \in DOMAIN out : out[i].type = "message_stop" => i = Len(out)
    /\ (mode = "stream" /\ pc = "done") =>
          /\ CountType(out, "message_delta") = 1
          /\ CountType(out, "message_stop") = 1
          /\ Len(out) >= 2
          /\ out[Len(out)].type = "message_stop"
          /\ out[Len(out) - 1].type = "message_delta"

\* C3: message_delta and message_stop are not emitted before the usage chunk
\* has been seen or the upstream has ended, and they have been emitted once
\* the usage chunk has been processed or the stream has ended.
C3_DeltaStopAtUsageOrEnd ==
    mode = "stream" =>
        /\ (~usageSent /\ pc # "done") =>
              (~HasType(out, "message_delta") /\ ~HasType(out, "message_stop"))
        /\ (usageSent \/ pc = "done") =>
              (HasType(out, "message_delta") /\ HasType(out, "message_stop"))

\* the upstream carried an inline Mistral tool call: the marker appeared in
\* the text of a model whose text the translator buffers
InlineToolCall ==
    impl = "types" /\ isMistralModel(model) /\ Includes(inputText, Marker)

Handlers == {"streamViaOpenAI", "stream",
             "createAnthropicMessagesHandler", "createOpenAIChatHandler"}

Generators == {"streamBackend", "handleAnthropicStreamingRequest",
               "handleOpenAIStreamingRequest"}

\* "direct" is a caller that iterates a generator itself and may stop early
Consumers == Handlers \cup {"direct"}

GeneratorOf(h) ==
    CASE h = "streamViaOpenAI" -> "streamBackend"
      [] h = "stream" -> "streamBackend"
      [] h = "createAnthropicMessagesHandler" -> "handleAnthropicStreamingRequest"
      [] h = "createOpenAIChatHandler" -> "handleOpenAIStreamingRequest"

\* the handler writes the 200 + SSE headers before it asks for any chunk
WritesHeadFirst(h) == h # "stream"

\* reply.sent as Fastify computes it: hijacked or the raw response ended
replySent == hijacked \/ ended

\* finally { reader.releaseLock() } with the lock removed only on normal end
ReleaseOnExit_NoFinally(path, r) == IF path = "end" THEN "released" ELSE r

\* try { ... } finally { reader.releaseLock() }: every way out of the try
\* block releases the reader
ReleaseOnExit(path, r) == "released"

InitHandler ==
    /\ mode = "handler"
    /\ StreamIdle
    /\ RequestIdle
    /\ IdsIdle
    /\ ParseIdle
    /\ AuxIdle
    /\ handler \in Consumers
    /\ backendGen \in Generators
    /\ handler \in Handlers => backendGen = GeneratorOf(handler)
    /\ hpc = "init"
    /\ genState = "created"
    /\ pending = "none"
    /\ reader = "none"
    /\ exitPath = "none"
    /\ nChunks = 0
    /\ nPulls = 0
    /\ status = 0
    /\ body = <<>>
    /\ ended = FALSE
    /\ hijacked = FALSE
    /\ clientClosed = FALSE
    /\ failure = "none"
    /\ sseStartedAtFailure = FALSE

\* entry of the handler up to its first request for a chunk
Dispatch ==
    /\ mode = "handler"
    /\ hpc = "init"
    /\ hpc' = IF handler = "stream" THEN "first" ELSE "loop"
    /\ status' = IF handler \in Handlers /\ WritesHeadFirst(handler) THEN 200 ELSE status
    \* the translator yields message_start before it reads the upstream
    /\ body' = IF handler = "streamViaOpenAI" THEN <<"message_start">> ELSE body
    /\ UNCHANGED <<reqVars, idVars, parseVars, auxVars, mode, streamVars, handler, backendGen, genState, pending, reader,
                   exitPath, nChunks, nPulls, ended, hijacked, clientClosed,
                   failure, sseStartedAtFailure>>

\* gen.next(): the consumer asks the generator for the next chunk
ConsumerNext ==
    /\ mode = "handler"
    /\ hpc \in {"first", "loop"}
    /\ pending = "none"
    /\ \/ /\ genState = "created"
          /\ genState' = "fetching"
          /\ UNCHANGED <<nPulls, reader, exitPath, pending>>
       \/ /\ genState = "yielded"
          /\ genState' = "reading"
          /\ nPulls' = nPulls + 1
          /\ UNCHANGED <<reader, exitPath, pending>>
       \/ /\ genState = "flushed"
          /\ genState' = "completed"
          /\ reader' = ReleaseOnExit("end", reader)
          /\ exitPath' = "end"
          /\ pending' = "done"
          /\ UNCHANGED nPulls
    /\ UNCHANGED <<reqVars, idVars, parseVars, auxVars, mode, streamVars, handler, backendGen, hpc, nChunks, status, body,
                   ended, hijacked, clientClosed, failure, sseStartedAtFailure>>

\* fetch resolved with an ok response that has a body: getReader, first read
FetchOk ==
    /\ mode = "handler"
    /\ genState = "fetching"
    /\ reader' = "locked"
    /\ genState' = "reading"
    /\ nPulls' = nPulls + 1
    /\ UNCHANGED <<reqVars, idVars, parseVars, auxVars, mode, streamVars, handler, backendGen, hpc, pending, exitPath,
                   nChunks, status, body, ended, hijacked, clientClosed, failure,
                   sseStartedAtFailure>>

\* fetch rejected, or the response is not ok, or it has no body: throw
FetchFail ==
    /\ mode = "handler"
    /\ genState = "fetching"
    /\ genState' = "completed"
    /\ pending' = "throw"
    /\ failure' = "fetch"
    /\ sseStartedAtFailure' = (status = 200)
    /\ UNCHANGED <<reqVars, idVars, parseVars, auxVars, mode, streamVars, handler, backendGen, hpc, reader, exitPath,
                   nChunks, nPulls, status, body, ended, hijacked, clientClosed>>

\* reader.read() resolved with a value
ReadChunk ==
    /\ mode = "handler"
    /\ genState = "reading"
    /\ nChunks < MaxChunks
    /\ nChunks' = nChunks + 1
    /\ \/ /\ genState' = "yielded"
          /\ pending' = "value"
          /\ UNCHANGED nPulls
       \/ \* the enricher kept the chunk: nothing to yield, read again
          /\ backendGen = "handleAnthropicStreamingRequest"
          /\ nPulls' = nPulls + 1
          /\ UNCHANGED <<genState, pending>>
    /\ UNCHANGED <<reqVars, idVars, parseVars, auxVars, mode, streamVars, handler, backendGen, hpc, reader, exitPath,
                   status, body, ended, hijacked, clientClosed, failure,
                   sseStartedAtFailure>>

\* reader.read() resolved with done
ReadDone ==
    /\ mode = "handler"
    /\ genState = "reading"
    /\ \/ \* enricher.flush() returned a remainder, yielded inside the try block
          /\ backendGen = "handleAnthropicStreamingRequest"
          /\ genState' = "flushed"
          /\ pending' = "value"
          /\ UNCHANGED <<reader, exitPath>>
       \/ /\ genState' = "completed"
          /\ reader' = ReleaseOnExit("end", reader)
          /\ exitPath' = "end"
          /\ pending' = "done"
    /\ UNCHANGED <<reqVars, idVars, parseVars, auxVars, mode, streamVars, handler, backendGen, hpc, nChunks, nPulls,
                   status, body, ended, hijacked, clientClosed, failure,
                   sseStartedAtFailure>>

\* reader.read() rejected
ReadFail ==
    /\ mode = "handler"
    /\ genState = "reading"
    /\ genState' = "completed"
    /\ reader' = ReleaseOnExit("readFail", reader)
    /\ exitPath' = "readFail"
    /\ pending' = "throw"
    /\ failure' = "read"
    /\ sseStartedAtFailure' = (status = 200)
    /\ UNCHANGED <<reqVars, idVars, parseVars, auxVars, mode, streamVars, handler, backendGen, hpc, nChunks, nPulls,
                   status, body, ended, hijacked, clientClosed>>

\* the handler received a chunk and writes it
OnValue ==
    /\ mode = "handler"
    /\ handler \in Handlers
    /\ pending = "value"
    /\ pending' = "none"
    /\ status' = 200
    /\ body' = Append(body, "chunk")
    /\ hpc' = "loop"
    /\ UNCHANGED <<reqVars, idVars, parseVars, auxVars, mode, streamVars, handler, backendGen, genState, reader, exitPath,
                   nChunks, nPulls, ended, hijacked, clientClosed, failure,
                   sseStartedAtFailure>>

\* the generator finished
OnDone ==
    /\ mode = "handler"
    /\ handler \in Handlers
    /\ pending = "done"
    /\ pending' = "none"
    /\ hpc' = "done"
    /\ ended' = TRUE
    /\ IF hpc = "first"
       THEN \* 'Empty response': reply.code(500) and reply.send(createApiError)
            /\ status' = 500
            /\ body' = Append(body, "json_error")
            /\ UNCHANGED hijacked
       ELSE /\ hijacked' = TRUE
            /\ UNCHANGED <<status, body>>
    /\ UNCHANGED <<reqVars, idVars, parseVars, auxVars, mode, streamVars, handler, backendGen, genState, reader, exitPath,
                   nChunks, nPulls, clientClosed, failure, sseStartedAtFailure>>

\* the generator threw
OnThrow ==
    /\ mode = "handler"
    /\ handler \in Handlers
    /\ pending = "throw"
    /\ pending' = "none"
    /\ hpc' = "done"
    /\ \/ /\ hpc = "first"
          /\ status' = 500
          /\ body' = Append(body, "json_error")
          /\ ended' = TRUE
          /\ UNCHANGED hijacked
       \/ /\ hpc = "loop"
          /\ handler # "createOpenAIChatHandler"
          /\ body' = Append(body, "sse_error")
          /\ ended' = TRUE
          /\ hijacked' = TRUE
          /\ UNCHANGED status
       \/ \* no catch around the loop: the outer catch sees reply.sent false,
          \* sets code 500 and returns a body after the headers went out;
          \* whether the framework still ends the response is not the
          \* handler's doing
          /\ hpc = "loop"
          /\ handler = "createOpenAIChatHandler"
          /\ ~replySent
          /\ ended' \in BOOLEAN
          /\ UNCHANGED <<status, body, hijacked>>
    /\ UNCHANGED <<reqVars, idVars, parseVars, auxVars, mode, streamVars, handler, backendGen, genState, reader, exitPath,
                   nChunks, nPulls, clientClosed, failure, sseStartedAtFailure>>

\* a direct caller takes what the generator produced
DirectTake ==
    /\ mode = "handler"
    /\ handler = "direct"
    /\ pending # "none"
    /\ pending' = "none"
    /\ hpc' = IF pending = "value" THEN hpc ELSE "done"
    /\ UNCHANGED <<reqVars, idVars, parseVars, auxVars, mode, streamVars, handler, backendGen, genState, reader, exitPath,
                   nChunks, nPulls, status, body, ended, hijacked, clientClosed,
                   failure, sseStartedAtFailure>>

\* gen.return(): a direct caller leaves its loop while the generator is
\* suspended at a yield
DirectAbort ==
    /\ mode = "handler"
    /\ handler = "direct"
    /\ hpc = "loop"
    /\ pending = "none"
    /\ genState \in {"yielded", "flushed"}
    /\ genState' = "completed"
    /\ reader' = ReleaseOnExit("abort", reader)
    /\ exitPath' = "abort"
    /\ hpc' = "done"
    /\ UNCHANGED <<reqVars, idVars, parseVars, auxVars, mode, streamVars, handler, backendGen, pending, nChunks, nPulls,
                   status, body, ended, hijacked, clientClosed, failure,
                   sseStartedAtFailure>>

\* the client closes its connection while the SSE response is in progress;
\* no handler registers a listener for it
ClientClose ==
    /\ mode = "handler"
    /\ handler \in Handlers
    /\ status = 200
    /\ hpc # "done"
    /\ ~clientClosed
    /\ clientClosed' = TRUE
    /\ UNCHANGED <<reqVars, idVars, parseVars, auxVars, mode, streamVars, handler, backendGen, hpc, genState, pending,
                   reader, exitPath, nChunks, nPulls, status, body, ended, hijacked,
                   failure, sseStartedAtFailure>>

NextHandler ==
    \/ Dispatch
    \/ ConsumerNext
    \/ FetchOk
    \/ FetchFail
    \/ ReadChunk
    \/ ReadDone
    \/ ReadFail
    \/ OnValue
    \/ OnDone
    \/ OnThrow
    \/ DirectTake
    \/ DirectAbort
    \/ ClientClose

SpecHandler == InitHandler /\ [][NextHandler]_vars

\* C5: on every streaming endpoint the 200 status and SSE headers are written
\* only after the first upstream chunk has arrived, and an upstream failure
\* before that chunk is answered with a 500 JSON error body.
C5_HeadersAfterFirstChunk ==
    (mode = "handler" /\ handler \in Handlers) =>
        /\ status = 200 => nChunks >= 1
        /\ (hpc = "done" /\ failure # "none" /\ nChunks = 0) =>
               (status = 500 /\ body = <<"json_error">>)

\* C6: on every streaming endpoint an upstream failure after the SSE response
\* has started appends an SSE error event and then ends the response.
C6_MidStreamErrorEvent ==
    (mode = "handler" /\ handler \in Handlers /\ hpc = "done"
        /\ failure # "none" /\ sseStartedAtFailure) =>
        /\ ended
        /\ body # <<>>
        /\ body[Len(body)] = "sse_error"

\* C7: once the client has closed the connection of a streaming response the
\* handler issues no further read on the upstream.
C7_StopsReadingOnClientClose ==
    [][(mode = "handler" /\ clientClosed) => nPulls' = nPulls]_vars

\* C35: once the 200 status and the SSE headers of a streaming response have
\* been written the response is ended on every path, the path where the
\* upstream generator throws mid-stream included.  No action changes `ended`
\* after the handler has returned, so a response that is still open at
\* hpc = "done" stays open for ever.
C35_EndedAfterHeaders ==
    (mode = "handler" /\ handler \in Handlers /\ hpc = "done"
        /\ status = 200) => ended

\* C8: the reader of the upstream body is released on every way out of the
\* stream: normal end, failed read, early abort by the consumer.
C8_ReaderReleased ==
    (mode = "handler" /\ genState = "completed") =>
        /\ reader # "locked"
        /\ exitPath # "none" => reader = "released"

\* the consumer stopped early, after a chunk, and the reader is released
C8_Witness ==
    /\ mode = "handler"
    /\ genState = "completed"
    /\ exitPath = "abort"
    /\ nChunks >= 1
    /\ reader = "released"

-----------------------------------------------------------------------------
(* Tool ids.  JavaScript numbers are doubles; the 32-bit values the hash    *)
(* works on are kept as pairs <<high 16 bits, low 16 bits>>.               *)

W16 == 65536

\* String.prototype.charCodeAt for the characters ids are written in
CharCode(c) ==
    IF c \in Range(LowerChars) THEN 96 + (CHOOSE i \in 1..26 : LowerChars[i] = c)
    ELSE IF c \in Range(UpperChars) THEN 64 + (CHOOSE i \in 1..26 : UpperChars[i] = c)
    ELSE IF c \in Range(DigitChars) THEN 47 + (CHOOSE i \in 1..10 : DigitChars[i] = c)
    ELSE IF c = "_" THEN 95
    ELSE IF c = "-" THEN 45
    ELSE 32

\* a ^ b on n-bit operands
RECURSIVE Xor(_, _, _)
Xor(a, b, n) ==
    IF n = 0 THEN 0
    ELSE (((a % 2) + (b % 2)) % 2) + 2 * Xor(a \div 2, b \div 2, n - 1)

Xor32(x, y) == <<Xor(x[1], y[1], 16), Xor(x[2], y[2], 16)>>

RECURSIVE Pow2(_)
Pow2(k) == IF k = 0 THEN 1 ELSE 2 * Pow2(k - 1)

\* x >>> k for 0 <= k < 32
Shr32(x, k) ==
    IF k >= 16 THEN <<0, x[1] \div Pow2(k - 16)>>
    ELSE <<x[1] \div Pow2(k),
           (x[2] \div Pow2(k)) + ((x[1] % Pow2(k)) * Pow2(16 - k))>>

\* 2^32 - x modulo 2^32
Neg32(x) ==
    IF x[2] = 0 THEN <<(W16 - x[1]) % W16, 0>>
    ELSE <<W16 - 1 - x[1], W16 - x[2]>>

Lt32(x, y) == x[1] < y[1] \/ (x[1] = y[1] /\ x[2] < y[2])

\* x + n modulo 2^32, for a small n
Add32(x, n) ==
    LET lo == x[2] + n
    IN  <<(x[1] + (lo \div W16)) % W16, lo % W16>>

\* ToInt32(x * n) as its 32 bits, for a small n (the product is exact)
MulSmall32(x, n) ==
    LET lo == x[2] * n
    IN  <<((x[1] * n) + (lo \div W16)) % W16, lo % W16>>

\* least magnitudes m with m * 16777619 >= 2^53, 2^54, 2^55: from there on
\* a double keeps the product only to a multiple of 2, 4, 8
RoundBits(m) ==
    IF Lt32(m, <<8191, 52641>>) THEN 0
    ELSE IF Lt32(m, <<16383, 39745>>) THEN 1
    ELSE IF Lt32(m, <<32767, 13954>>) THEN 2
    ELSE 3

\* the low 32 bits of m * 16777619 (= m * 2^24 + m * 403), exact
MulPrimeLow(m) ==
    LET a == m[2] * 403
        b == (m[1] * 403) + (a \div W16)
    IN  <<(b + (m[2] % 256) * 256) % W16, a % W16>>

\* the low 32 bits of the double nearest to m * 16777619 (ties to even)
MulPrimeRounded(m) ==
    LET low == MulPrimeLow(m)
        s == RoundBits(m)
        unit == Pow2(s)
        r == low[2] % unit
        base == <<low[1], low[2] - r>>
        odd == (low[2] \div unit) % 2 = 1
        up == s > 0 /\ (2 * r > unit \/ (2 * r = unit /\ odd))
    IN  IF up THEN Add32(base, unit) ELSE base

\* hash = ((hash ^ code) * 16777619) >>> 0
FnvStep(hash, code) ==
    LET x == <<hash[1], Xor(hash[2], code, 16)>>
        negative == x[1] >= 32768
        m == IF negative THEN Neg32(x) ELSE x
        p == MulPrimeRounded(m)
    IN  IF negative THEN Neg32(p) ELSE p

RECURSIVE FnvHash(_, _, _)
FnvHash(id, i, hash) ==
    IF i >= Len(id) THEN hash
    ELSE FnvHash(id, i + 1, FnvStep(hash, CharCode(At(id, i))))

Base62 == LowerChars \o UpperChars \o DigitChars

Mod62(x) == ((x[1] % 62) * (W16 % 62) + x[2]) % 62

AlnumChars == Range(LowerChars) \cup Range(UpperChars) \cup Range(DigitChars)

IsMistralId_LengthOnly(id) == Len(id) = 9

\* /^[a-zA-Z0-9]{9}$/.test(id)
IsMistralId(id) == Len(id) = 9 /\ \A i \in DOMAIN id : id[i] \in AlnumChars

\* utils/convert.ts: position-aware hash
normalizeToolId_utils(id) ==
    IF IsMistralId(id) THEN id
    ELSE LET hash == FnvHash(id, 0, <<0, 0>>)
             mixed(i) == Xor32(Xor32(Shr32(hash, i * 3), Shr32(hash, i + 7)),
                               MulSmall32(hash, i + 1))
         IN  [k \in 1..9 |-> Base62[Mod62(mixed(k - 1)) + 1]]

RECURSIVE CharSum(_, _)
CharSum(id, i) == IF i >= Len(id) THEN 0 ELSE CharCode(At(id, i)) + CharSum(id, i + 1)

\* types/index.ts: sum of the character codes
normalizeToolId_types(id) ==
    IF IsMistralId(id) THEN id
    ELSE LET hash == CharSum(id, 0)
         IN  [k \in 1..9 |-> Base62[((hash * k * 7) % 62) + 1]]

-----------------------------------------------------------------------------
(* Requests.  A message content is a string, null, or a list of parts.     *)

StrC(t) == [kind |-> "string", text |-> t, parts |-> <<>>]

NullC == [kind |-> "null", text |-> <<>>, parts |-> <<>>]

PartsC(ps) == [kind |-> "parts", text |-> <<>>, parts |-> ps]

\* OpenAIMessage; hasToolCalls tells a present tool_calls array from none
OMsg(role, content, hasToolCalls, tool_calls, tool_call_id) ==
    [role |-> role, content |-> content, hasToolCalls |-> hasToolCalls,
     tool_calls |-> tool_calls, tool_call_id |-> tool_call_id]

ToolCall(id, name, arguments, hasIndex) ==
    [id |-> id, name |-> name, arguments |-> arguments, hasIndex |-> hasIndex]

\* Anthropic content block; for a tool_result, id is tool_use_id and text
\* its content; input is the JSON text of the tool input, <<>> when absent
ABlock(type, text, id, name, input) ==
    [type |-> type, text |-> text, id |-> id, name |-> name, input |-> input]

AMsg(role, isString, text, blocks) ==
    [role |-> role, isString |-> isString, text |-> text, blocks |-> blocks]

RECURSIVE TrimStart(_)
TrimStart(t) == IF t # <<>> /\ Head(t) = " " THEN TrimStart(Tail(t)) ELSE t

RECURSIVE TrimEnd(_)
TrimEnd(t) ==
    IF t # <<>> /\ t[Len(t)] = " " THEN TrimEnd(SubSeq(t, 1, Len(t) - 1)) ELSE t

RECURSIVE StripLeft(_, _)
StripLeft(t, c) == IF t # <<>> /\ Head(t) = c THEN StripLeft(Tail(t), c) ELSE t

RECURSIVE StripRight(_, _)
StripRight(t, c) ==
    IF t # <<>> /\ t[Len(t)] = c THEN StripRight(SubSeq(t, 1, Len(t) - 1), c) ELSE t

NameChars == AlnumChars \cup {"_", "-"}

MaxNameLen == 64

UnknownTool == <<"u","n","k","n","o","w","n","_","t","o","o","l">>

sanitizeToolName(name) ==
    LET trimmed == TrimEnd(TrimStart(name))
        replaced == [i \in DOMAIN trimmed |->
                        IF trimmed[i] \in NameChars THEN trimmed[i] ELSE "_"]
        stripped == StripRight(StripLeft(replaced, "_"), "_")
        cut == IF Len(stripped) > MaxNameLen THEN Slice(stripped, 0, MaxNameLen)
               ELSE stripped
    IN  IF cut = <<>> THEN UnknownTool ELSE cut

normalizeToolId_Truncate(copy, id) == IF Len(id) > 9 THEN SubSeq(id, 1, 9) ELSE id

normalizeToolId(copy, id) ==
    IF copy = "utils" THEN normalizeToolId_utils(id) ELSE normalizeToolId_types(id)

RECURSIVE Concat(_)
Concat(seqs) == IF seqs = <<>> THEN <<>> ELSE Head(seqs) \o Concat(Tail(seqs))

RECURSIVE JoinWith(_, _)
JoinWith(seqs, sep) ==
    IF seqs = <<>> THEN <<>>
    ELSE IF Len(seqs) = 1 THEN Head(seqs)
    ELSE Head(seqs) \o sep \o JoinWith(Tail(seqs), sep)

BlocksOf(blocks, t) ==
    LET Test(b) == b.type = t IN SelectSeq(blocks, Test)

EmptyObject == <<"{", "}">>

Sentinel == OMsg("user", StrC(<<"C","o","n","t","i","n","u","e",".">>), FALSE, <<>>, <<>>)

VisionSystemPrompt == <<"v","i","s","i","o","n">>

\* one Anthropic message to the OpenAI messages it becomes
MapMessage(copy, msg) ==
    IF msg.isString
    THEN <<OMsg(msg.role, StrC(msg.text), FALSE, <<>>, <<>>)>>
    ELSE
      LET toolUseBlocks == BlocksOf(msg.blocks, "tool_use")
          toolResultBlocks == BlocksOf(msg.blocks, "tool_result")
          textBlocks == BlocksOf(msg.blocks, "text")
      IN
      IF msg.role = "assistant" /\ Len(toolUseBlocks) > 0
      THEN LET textContent == Concat([i \in DOMAIN textBlocks |-> textBlocks[i].text])
               calls == [i \in DOMAIN toolUseBlocks |->
                   ToolCall(normalizeToolId(copy, toolUseBlocks[i].id),
                            sanitizeToolName(toolUseBlocks[i].name),
                            IF toolUseBlocks[i].input = <<>> THEN EmptyObject
                            ELSE toolUseBlocks[i].input,
                            FALSE)]
           IN  <<OMsg("assistant",
                      IF textContent = <<>> THEN NullC ELSE StrC(textContent),
                      TRUE, calls, <<>>)>>
      ELSE IF msg.role = "user" /\ Len(toolResultBlocks) > 0
      THEN [i \in DOMAIN toolResultBlocks |->
               OMsg("tool", StrC(toolResultBlocks[i].text), FALSE, <<>>,
                    normalizeToolId(copy, toolResultBlocks[i].id))]
      ELSE LET parts == [i \in DOMAIN msg.blocks |->
                   IF msg.blocks[i].type = "text"
                   THEN [type |-> "text", text |-> msg.blocks[i].text]
                   ELSE IF msg.blocks[i].type = "image"
                   THEN [type |-> "image_url", text |-> msg.blocks[i].text]
                   ELSE [type |-> "text", text |-> <<"{", msg.blocks[i].type, "}">>]]
           IN  <<OMsg(msg.role, PartsC(parts), FALSE, <<>>, <<>>)>>

RECURSIVE MapMessages(_, _)
MapMessages(copy, msgs) ==
    IF msgs = <<>> THEN <<>>
    ELSE MapMessage(copy, Head(msgs)) \o MapMessages(copy, Tail(msgs))

AppendSentinel_AnyAssistant(messages) ==
    IF messages # <<>> /\ messages[Len(messages)].role = "assistant"
    THEN Append(messages, Sentinel)
    ELSE messages

\* the trailing-message rule shared by anthropicToOpenAI and the types copy
\* of normalizeOpenAIToolIds
AppendSentinel(messages) ==
    IF messages # <<>>
       /\ messages[Len(messages)].role = "assistant"
       /\ ~messages[Len(messages)].hasToolCalls
    THEN Append(messages, Sentinel)
    ELSE messages

\* req.system: absent, a string, or a list of text blocks
SystemMessages(system) ==
    IF system.kind = "string" /\ system.text # <<>>
    THEN <<OMsg("system", StrC(system.text), FALSE, <<>>, <<>>)>>
    ELSE IF system.kind = "blocks"
    THEN <<OMsg("system", StrC(JoinWith(system.parts, <<"\n">>)), FALSE, <<>>, <<>>)>>
    ELSE <<>>

anthropicToOpenAI(copy, req, vision) ==
    LET visionMsgs == IF copy = "types" /\ vision
                      THEN <<OMsg("system", StrC(VisionSystemPrompt), FALSE, <<>>, <<>>)>>
                      ELSE <<>>
        messages == visionMsgs \o SystemMessages(req.system)
                        \o MapMessages(copy, req.messages)
    IN  [messages |-> AppendSentinel(messages),
         hasTools |-> req.hasTools,
         tools |-> req.tools,
         hasToolChoice |-> FALSE,
         stream |-> req.stream,
         include_usage |-> req.stream]

ToolsToRemove == {<<"W","e","b","S","e","a","r","c","h">>}

removeUnsupportedTools(req) ==
    IF ~req.hasTools \/ req.tools = <<>> THEN req
    ELSE LET Keep(t) == t \notin ToolsToRemove
         IN  [req EXCEPT !.tools = SelectSeq(req.tools, Keep)]

CallIds_WithRefs(messages) ==
    UNION {(IF messages[i].role = "assistant" /\ messages[i].hasToolCalls
            THEN {messages[i].tool_calls[k].id : k \in DOMAIN messages[i].tool_calls}
            ELSE {messages[i].tool_call_id}) : i \in DOMAIN messages} \ {<<>>}

\* the ids of the tool calls of the assistant messages, in order
RECURSIVE CallIds(_)
CallIds(messages) ==
    IF messages = <<>> THEN {}
    ELSE LET msg == Head(messages)
             own == IF msg.role = "assistant" /\ msg.hasToolCalls
                    THEN {msg.tool_calls[i].id : i \in DOMAIN msg.tool_calls} \ {<<>>}
                    ELSE {}
         IN  own \cup CallIds(Tail(messages))

MappedId_Identity(copy, ids, id) == id

\* idMap.get(id) || id
MappedId(copy, ids, id) == IF id \in ids THEN normalizeToolId(copy, id) ELSE id

\* rest.function?.arguments || '{}', replaced by '{}' when JSON.parse throws
SanitizeArguments(arguments) ==
    IF arguments = <<>> THEN EmptyObject
    ELSE IF JsonParses(arguments) THEN arguments
    ELSE EmptyObject

NormalizeMessage_CallsOnly(copy, ids, msg) ==
    IF msg.role = "assistant" /\ msg.hasToolCalls
    THEN [msg EXCEPT !.tool_calls = [i \in DOMAIN msg.tool_calls |->
             [msg.tool_calls[i] EXCEPT !.id = MappedId(copy, ids, @),
                                       !.hasIndex = FALSE]]]
    ELSE msg

NormalizeMessage(copy, ids, msg) ==
    IF msg.role = "assistant" /\ msg.hasToolCalls
    THEN [msg EXCEPT !.tool_calls = [i \in DOMAIN msg.tool_calls |->
             IF copy = "utils"
             THEN ToolCall(MappedId(copy, ids, msg.tool_calls[i].id),
                           msg.tool_calls[i].name,
                           SanitizeArguments(msg.tool_calls[i].arguments),
                           FALSE)
             ELSE [msg.tool_calls[i] EXCEPT !.id = MappedId(copy, ids, @)]]]
    ELSE IF msg.role = "tool" /\ msg.tool_call_id # <<>>
    THEN [msg EXCEPT !.tool_call_id = MappedId(copy, ids, @)]
    ELSE msg

\* the utils copy rewrites ids and arguments; the types copy rewrites ids and
\* applies the trailing-message rule
normalizeOpenAIToolIds(copy, req) ==
    LET ids == CallIds(req.messages)
        normalizedMessages == [i \in DOMAIN req.messages |->
                                  NormalizeMessage(copy, ids, req.messages[i])]
    IN  [req EXCEPT !.messages = IF copy = "types"
                                 THEN AppendSentinel(normalizedMessages)
                                 ELSE normalizedMessages]

Digits36 ==
    <<"0","1","2","3","4","5","6","7","8","9","a","b","c","d","e","f","g","h","i","j",
      "k","l","m","n","o","p","q","r","s","t","u","v","w","x","y","z">>

\* index.toString(36)
RECURSIVE ToString36(_)
ToString36(n) ==
    IF n < 36 THEN <<Digits36[n + 1]>>
    ELSE ToString36(n \div 36) \o <<Digits36[(n % 36) + 1]>>

\* s.padStart(width, c)
RECURSIVE PadStart(_, _, _)
PadStart(t, width, c) == IF Len(t) >= width THEN t ELSE PadStart(<<c>> \o t, width, c)

generateMistralToolId(index) ==
    LET base == PadStart(ToString36(index), 4, "0")
        suffix == [i \in 1..5 |-> Base62[(((index * 7) + ((i - 1) * 13)) % 62) + 1]]
    IN  SubSeq(base \o suffix, 1, 9)

\* the ids of the tool_use blocks of the assistant messages, in order of
\* first appearance (the keys of idMap in insertion order)
RECURSIVE FirstSeen(_, _)
FirstSeen(ids, seen) ==
    IF ids = <<>> THEN seen
    ELSE IF Head(ids) = <<>> \/ \E k \in DOMAIN seen : seen[k] = Head(ids)
         THEN FirstSeen(Tail(ids), seen)
         ELSE FirstSeen(Tail(ids), Append(seen, Head(ids)))

RECURSIVE AssistantToolUseIds(_)
AssistantToolUseIds(messages) ==
    IF messages = <<>> THEN <<>>
    ELSE LET msg == Head(messages)
             uses == IF msg.role = "assistant" /\ ~msg.isString
                     THEN BlocksOf(msg.blocks, "tool_use") ELSE <<>>
         IN  [k \in DOMAIN uses |-> uses[k].id] \o AssistantToolUseIds(Tail(messages))

\* Anthropic-level pass of the types copy: ids are numbered in order of first
\* appearance; a tool_result id that is not a key of idMap is kept
normalizeToolCallIds(req) ==
    LET keys == FirstSeen(AssistantToolUseIds(req.messages), <<>>)
        NewId(id) == generateMistralToolId((CHOOSE k \in DOMAIN keys : keys[k] = id) - 1)
        InMap(id) == \E k \in DOMAIN keys : keys[k] = id
        Rewrite(block) ==
            IF block.type \in {"tool_use", "tool_result"} /\ block.id # <<>> /\ InMap(block.id)
            THEN [block EXCEPT !.id = NewId(block.id)]
            ELSE block
    IN  IF keys = <<>> THEN req
        ELSE [req EXCEPT !.messages = [i \in DOMAIN req.messages |->
                 IF req.messages[i].isString THEN req.messages[i]
                 ELSE [req.messages[i] EXCEPT !.blocks =
                          [k \in DOMAIN req.messages[i].blocks |->
                              Rewrite(req.messages[i].blocks[k])]]]]

filterEmptyAssistantMessages(req) ==
    LET Keep(msg) ==
            ~(/\ msg.role = "assistant"
              /\ (msg.content.kind = "null"
                    \/ (msg.content.kind = "string" /\ msg.content.text = <<>>))
              /\ (~msg.hasToolCalls \/ msg.tool_calls = <<>>))
    IN  [req EXCEPT !.messages = SelectSeq(req.messages, Keep)]

\* a tool_choice is dropped when the request has no tools
sanitizeToolChoice(req) ==
    IF req.hasToolChoice /\ (~req.hasTools \/ req.tools = <<>>)
    THEN [req EXCEPT !.hasToolChoice = FALSE]
    ELSE req

\* an assistant message with null content is put between a tool message and
\* the user message that follows it
RECURSIVE InsertAfterTool(_, _)
InsertAfterTool(messages, prevRole) ==
    IF messages = <<>> THEN <<>>
    ELSE LET msg == Head(messages)
             rest == InsertAfterTool(Tail(messages), msg.role)
         IN  IF prevRole = "tool" /\ msg.role = "user"
             THEN <<OMsg("assistant", NullC, FALSE, <<>>, <<>>), msg>> \o rest
             ELSE <<msg>> \o rest

ensureMistralMessageOrder(req) ==
    [req EXCEPT !.messages = InsertAfterTool(req.messages, "none")]

\* pipe(f1, f2, f3, f4)(req): the steps applied left to right
transform(req) ==
    ensureMistralMessageOrder(
        sanitizeToolChoice(
            normalizeOpenAIToolIds("utils",
                filterEmptyAssistantMessages(req))))

-----------------------------------------------------------------------------
(* Requests the clients send *)

IdCall1 == <<"c","a","l","l","_","1">>

IdCall2 == <<"c","a","l","l","_","2">>

NameBash == <<"b","a","s","h">>

NameWebSearch == <<"W","e","b","S","e","a","r","c","h">>

\* a tool name with a character outside [a-zA-Z0-9_-]
NameFsLs == <<"f","s",".","l","s">>

TextU == <<"U">>

TextA == <<"A">>

ToolUse1 == ABlock("tool_use", <<>>, IdCall1, NameBash, EmptyObject)

ToolResult1 == ABlock("tool_result", <<"o","k">>, IdCall1, <<>>, <<>>)

ToolUse2 == ABlock("tool_use", <<>>, IdCall2, NameBash, EmptyObject)

ToolResult2 == ABlock("tool_result", <<"o","k">>, IdCall2, <<>>, <<>>)

ToolUse3 == ABlock("tool_use", <<>>, IdCall1, NameFsLs, EmptyObject)

TextBlock == ABlock("text", <<"T">>, <<>>, <<>>, <<>>)

ImageBlock == ABlock("image", <<"i","m","g">>, <<>>, <<>>, <<>>)

AnthropicMessages ==
    { AMsg("user", TRUE, TextU, <<>>),
      AMsg("assistant", TRUE, TextA, <<>>),
      AMsg("assistant", FALSE, <<>>, <<TextBlock>>),
      AMsg("assistant", FALSE, <<>>, <<ToolUse1>>),
      AMsg("assistant", FALSE, <<>>, <<TextBlock, ToolUse1>>),
      AMsg("assistant", FALSE, <<>>, <<ToolUse1, ToolUse2>>),
      AMsg("assistant", FALSE, <<>>, <<ToolUse3>>),
      AMsg("user", FALSE, <<>>, <<ToolResult1>>),
      AMsg("user", FALSE, <<>>, <<ToolResult2>>),
      AMsg("user", FALSE, <<>>, <<ToolResult1, TextBlock>>),
      AMsg("user", FALSE, <<>>, <<TextBlock>>),
      AMsg("user", FALSE, <<>>, <<TextBlock, ImageBlock>>) }

NoSystem == [kind |-> "absent", text |-> <<>>, parts |-> <<>>]

Systems == { NoSystem, [kind |-> "string", text |-> <<"S">>, parts |-> <<>>] }

Lists(S) == UNION {[1..n -> S] : n \in 0..MaxMsgs}

AnthropicRequests ==
    [messages : Lists(AnthropicMessages),
     system : Systems,
     hasTools : {TRUE},
     tools : {<<>>, <<NameWebSearch, NameBash, NameFsLs>>},
     stream : {TRUE}]
    \cup
    [messages : Lists(AnthropicMessages),
     system : Systems,
     hasTools : {FALSE},
     tools : {<<>>},
     stream : {FALSE}]

OpenAIMessages ==
    { OMsg("system", StrC(<<"S">>), FALSE, <<>>, <<>>),
      OMsg("user", StrC(TextU), FALSE, <<>>, <<>>),
      OMsg("assistant", StrC(TextA), FALSE, <<>>, <<>>),
      OMsg("assistant", StrC(<<>>), FALSE, <<>>, <<>>),
      OMsg("assistant", NullC, TRUE, <<ToolCall(IdCall1, NameBash, <<"{">>, TRUE)>>, <<>>),
      OMsg("assistant", NullC, TRUE,
           <<ToolCall(IdCall1, NameBash, EmptyObject, FALSE),
             ToolCall(IdCall2, NameBash, EmptyObject, FALSE)>>, <<>>),
      OMsg("assistant", NullC, TRUE, <<ToolCall(<<>>, NameBash, EmptyObject, FALSE)>>, <<>>),
      OMsg("assistant", NullC, TRUE, <<>>, <<>>),
      OMsg("tool", StrC(<<"o","k">>), FALSE, <<>>, IdCall1),
      OMsg("tool", StrC(<<"o","k">>), FALSE, <<>>, IdCall2) }

OpenAIRequests ==
    [messages : Lists(OpenAIMessages),
     hasTools : {TRUE},
     tools : {<<NameBash>>},
     hasToolChoice : BOOLEAN,
     stream : {TRUE},
     include_usage : {FALSE}]
    \cup
    [messages : Lists(OpenAIMessages),
     hasTools : {FALSE},
     tools : {<<>>},
     hasToolChoice : {TRUE},
     stream : {FALSE},
     include_usage : {FALSE}]

InitRequest ==
    /\ mode = "request"
    /\ StreamIdle
    /\ HandlerIdle
    /\ IdsIdle
    /\ ParseIdle
    /\ AuxIdle
    /\ reqPath \in {"anthropic", "openai"}
    /\ reqImpl \in {"utils", "types"}
    /\ useVisionPrompt \in IF reqPath = "anthropic" /\ reqImpl = "types"
                           THEN BOOLEAN ELSE {FALSE}
    /\ anthropicBody \in IF reqPath = "anthropic" THEN AnthropicRequests ELSE {<<>>}
    /\ openaiBody \in IF reqPath = "openai" THEN OpenAIRequests ELSE {<<>>}
    /\ rpc = "received"
    /\ payload = <<>>

\* POST /v1/messages: removeUnsupportedTools, then anthropicToOpenAI
PostMessages ==
    /\ mode = "request"
    /\ rpc = "received"
    /\ reqPath = "anthropic"
    /\ reqImpl = "utils"
    /\ payload' = anthropicToOpenAI("utils", removeUnsupportedTools(anthropicBody), FALSE)
    /\ rpc' = "sent"
    /\ UNCHANGED <<mode, streamVars, handlerVars, idVars, parseVars, auxVars, reqPath, reqImpl, useVisionPrompt,
                   anthropicBody, openaiBody>>

\* POST /v1/chat/completions: the request pipeline
PostChatCompletions ==
    /\ mode = "request"
    /\ rpc = "received"
    /\ reqPath = "openai"
    /\ reqImpl = "utils"
    /\ payload' = transform(openaiBody)
    /\ rpc' = "sent"
    /\ UNCHANGED <<mode, streamVars, handlerVars, idVars, parseVars, auxVars, reqPath, reqImpl, useVisionPrompt,
                   anthropicBody, openaiBody>>

\* the types copy of anthropicToOpenAI applied to a request
ConvertAnthropic ==
    /\ mode = "request"
    /\ rpc = "received"
    /\ reqPath = "anthropic"
    /\ reqImpl = "types"
    /\ payload' = anthropicToOpenAI("types", anthropicBody, useVisionPrompt)
    /\ rpc' = "sent"
    /\ UNCHANGED <<mode, streamVars, handlerVars, idVars, parseVars, auxVars, reqPath, reqImpl, useVisionPrompt,
                   anthropicBody, openaiBody>>

\* the types copy of normalizeOpenAIToolIds applied to a request
NormalizeOpenAI ==
    /\ mode = "request"
    /\ rpc = "received"
    /\ reqPath = "openai"
    /\ reqImpl = "types"
    /\ payload' = normalizeOpenAIToolIds("types", openaiBody)
    /\ rpc' = "sent"
    /\ UNCHANGED <<mode, streamVars, handlerVars, idVars, parseVars, auxVars, reqPath, reqImpl, useVisionPrompt,
                   anthropicBody, openaiBody>>

\* the types copy's Anthropic-level id pass applied to a request
NormalizeToolCallIds ==
    /\ mode = "request"
    /\ rpc = "received"
    /\ reqPath = "anthropic"
    /\ reqImpl = "types"
    /\ payload' = normalizeToolCallIds(anthropicBody)
    /\ rpc' = "normalized"
    /\ UNCHANGED <<mode, streamVars, handlerVars, idVars, parseVars, auxVars, reqPath, reqImpl, useVisionPrompt,
                   anthropicBody, openaiBody>>

NextRequest ==
    \/ PostMessages
    \/ PostChatCompletions
    \/ ConvertAnthropic
    \/ NormalizeOpenAI
    \/ NormalizeToolCallIds

SpecRequest == InitRequest /\ [][NextRequest]_vars

\* the messages of the request as the client sent it
InputMessages ==
    IF reqPath = "anthropic" THEN anthropicBody.messages ELSE openaiBody.messages

\* C9: in every outbound OpenAI request no user message immediately follows
\* a tool message.
C9_NoUserAfterTool ==
    (mode = "request" /\ rpc = "sent") =>
        \A i \in 1..(Len(payload.messages) - 1) :
            ~(payload.messages[i].role = "tool" /\ payload.messages[i + 1].role = "user")

\* C10: the last message of every outbound OpenAI request has role user or
\* tool, never assistant.
C10_LastIsUserOrTool ==
    (mode = "request" /\ rpc = "sent" /\ InputMessages # <<>>) =>
        /\ payload.messages # <<>>
        /\ payload.messages[Len(payload.messages)].role \in {"user", "tool"}

\* an assistant message that filterEmptyAssistantMessages would drop
IsEmptyAssistant(msg) ==
    /\ msg.role = "assistant"
    /\ (msg.content.kind = "null"
          \/ (msg.content.kind = "string" /\ msg.content.text = <<>>))
    /\ (~msg.hasToolCalls \/ msg.tool_calls = <<>>)

\* C36: after the full OpenAI request pipeline no outbound assistant message
\* has empty or null content together with no tool_calls.
C36_NoEmptyAssistantOutbound ==
    (mode = "request" /\ rpc = "sent" /\ reqPath = "openai" /\ reqImpl = "utils") =>
        \A i \in DOMAIN payload.messages : ~IsEmptyAssistant(payload.messages[i])

\* the names of the tool_use blocks of the assistant messages, in order
RECURSIVE ToolUseNames(_)
ToolUseNames(messages) ==
    IF messages = <<>> THEN <<>>
    ELSE LET msg == Head(messages)
             uses == IF msg.role = "assistant" /\ ~msg.isString
                     THEN BlocksOf(msg.blocks, "tool_use") ELSE <<>>
         IN  [k \in DOMAIN uses |-> uses[k].name] \o ToolUseNames(Tail(messages))

\* the function names of the tool_calls of the outbound messages, in order
RECURSIVE ToolCallNames(_)
ToolCallNames(messages) ==
    IF messages = <<>> THEN <<>>
    ELSE LET msg == Head(messages)
             calls == IF msg.hasToolCalls THEN msg.tool_calls ELSE <<>>
         IN  [k \in DOMAIN calls |-> calls[k].name] \o ToolCallNames(Tail(messages))

\* the declared tools that reach the outbound request, in order
DeclaredSent ==
    IF reqImpl = "utils" THEN removeUnsupportedTools(anthropicBody).tools
    ELSE anthropicBody.tools

\* C37: if a tool_use block's name equals the name of a tool declared in the
\* same Anthropic request, then in the outbound OpenAI request the function
\* name on that tool_call equals the function name of the corresponding entry
\* in tools.
C37_CallNameMatchesDeclaredTool ==
    (mode = "request" /\ rpc = "sent" /\ reqPath = "anthropic") =>
        LET used == ToolUseNames(anthropicBody.messages)
            called == ToolCallNames(payload.messages)
        IN  /\ Len(called) = Len(used)
            /\ Len(payload.tools) = Len(DeclaredSent)
            /\ \A k \in DOMAIN used : \A j \in DOMAIN DeclaredSent :
                   used[k] = DeclaredSent[j] => called[k] = payload.tools[j]

\* the sentinel messages of an outbound request
SentinelCount(messages) ==
    Cardinality({i \in DOMAIN messages : messages[i] = Sentinel})

\* the request ends with an assistant message that carries no tool_use block
EndsWithBareAssistant(messages) ==
    /\ messages # <<>>
    /\ messages[Len(messages)].role = "assistant"
    /\ \/ messages[Len(messages)].isString
       \/ BlocksOf(messages[Len(messages)].blocks, "tool_use") = <<>>

\* the request ends with a user message that carries a tool_result block
EndsWithToolResult(messages) ==
    /\ messages # <<>>
    /\ messages[Len(messages)].role = "user"
    /\ ~messages[Len(messages)].isString
    /\ BlocksOf(messages[Len(messages)].blocks, "tool_result") # <<>>

\* C11: anthropicToOpenAI appends the sentinel user message "Continue."
\* exactly when the last mapped message is an assistant message without
\* tool calls, and appends nothing when the last mapped message is a tool
\* message.
C11_SentinelRule ==
    (mode = "request" /\ rpc = "sent" /\ reqPath = "anthropic") =>
        LET n == Len(payload.messages) IN
        /\ EndsWithBareAssistant(anthropicBody.messages) =>
               /\ n >= 2
               /\ payload.messages[n] = Sentinel
               /\ payload.messages[n - 1].role = "assistant"
               /\ SentinelCount(payload.messages) = 1
        /\ ~EndsWithBareAssistant(anthropicBody.messages) =>
               SentinelCount(payload.messages) = 0
        /\ EndsWithToolResult(anthropicBody.messages) =>
               payload.messages[n].role = "tool"

C11_Witness ==
    /\ mode = "request"
    /\ rpc = "sent"
    /\ reqPath = "anthropic"
    /\ EndsWithBareAssistant(anthropicBody.messages)
    /\ ~anthropicBody.messages[Len(anthropicBody.messages)].isString
    /\ payload.messages[Len(payload.messages)] = Sentinel

\* the ids of the tool_use blocks of an Anthropic assistant message
ToolUseIds(msg) ==
    IF msg.role = "assistant" /\ ~msg.isString
    THEN {msg.blocks[k].id : k \in {k \in DOMAIN msg.blocks : msg.blocks[k].type = "tool_use"}}
    ELSE {}

\* the tool_use_ids of the tool_result blocks of an Anthropic user message
ToolResultIds(msg) ==
    IF msg.role = "user" /\ ~msg.isString
    THEN {msg.blocks[k].id : k \in {k \in DOMAIN msg.blocks : msg.blocks[k].type = "tool_result"}}
    ELSE {}

\* the ids of the tool calls of an outbound message
OutCallIds(msg) ==
    IF msg.role = "assistant" /\ msg.hasToolCalls
    THEN {msg.tool_calls[k].id : k \in DOMAIN msg.tool_calls}
    ELSE {}

\* the tool_call_id of an outbound tool message
OutRefIds(msg) == IF msg.role = "tool" THEN {msg.tool_call_id} ELSE {}

\* a tool_use at message i is answered by a tool_result with the same id at a
\* later message j
AnsweredPairs(messages) ==
    {ij \in (DOMAIN messages) \X (DOMAIN messages) :
        /\ ij[1] < ij[2]
        /\ ToolUseIds(messages[ij[1]]) \cap ToolResultIds(messages[ij[2]]) # {}}

AllOutIds(messages) ==
    UNION {OutCallIds(messages[p]) \cup OutRefIds(messages[p]) : p \in DOMAIN messages}

AllInIds(messages) ==
    UNION {ToolUseIds(messages[i]) \cup ToolResultIds(messages[i]) : i \in DOMAIN messages}

\* C12: when a tool_result's tool_use_id equals the id of an earlier tool_use
\* in the same Anthropic request, the outbound tool message's tool_call_id
\* equals the outbound assistant tool_call's id, and that id matches
\* ^[A-Za-z0-9]{9}$.
C12_MatchedIdsStayMatched ==
    (mode = "request" /\ rpc = "sent" /\ reqPath = "anthropic") =>
        /\ \A ij \in AnsweredPairs(anthropicBody.messages) :
              \E p \in DOMAIN payload.messages, q \in DOMAIN payload.messages :
                  /\ p < q
                  /\ \E y \in OutCallIds(payload.messages[p]) :
                        /\ y \in OutRefIds(payload.messages[q])
                        /\ IsMistralId(y)
        /\ (AnsweredPairs(anthropicBody.messages) # {}
              /\ Cardinality(AllInIds(anthropicBody.messages)) = 1) =>
              /\ Cardinality(AllOutIds(payload.messages)) = 1
              /\ \A y \in AllOutIds(payload.messages) : IsMistralId(y)

C12_Witness ==
    /\ mode = "request"
    /\ rpc = "sent"
    /\ reqPath = "anthropic"
    /\ AnsweredPairs(anthropicBody.messages) # {}
    /\ \E p \in DOMAIN payload.messages : OutRefIds(payload.messages[p]) # {}

\* the ids of the tool calls of a message of the request as the client sent
\* it, and the id a tool result of the request refers to
InCallIds(msg) == IF reqPath = "anthropic" THEN ToolUseIds(msg) ELSE OutCallIds(msg)

InRefIds(msg) == IF reqPath = "anthropic" THEN ToolResultIds(msg) ELSE OutRefIds(msg)

\* every tool call of the request is answered by a later tool result
EveryCallAnswered(messages) ==
    \A i \in DOMAIN messages : \A x \in InCallIds(messages[i]) :
        \E j \in DOMAIN messages : j > i /\ x \in InRefIds(messages[j])

\* every tool_call id is referenced by a tool message that follows it; a
\* tool_call_id that matches no tool_call (an orphan) is not counted, so this
\* is the equality of the two id sets
CallsReferenced(messages) ==
    \A p \in DOMAIN messages : \A y \in OutCallIds(messages[p]) :
        \E q \in DOMAIN messages : q > p /\ y \in OutRefIds(messages[q])

\* C13 as stated: after normalization the set of ids on assistant tool_calls
\* equals the set of tool_call_id values referenced by the tool messages that
\* follow, orphan references excepted.
C13_IdSetsEqual ==
    (mode = "request" /\ rpc = "sent") => CallsReferenced(payload.messages)

\* C13 amended: in a request where every tool call is answered by a later
\* tool result, after normalization the set of ids on assistant tool_calls
\* equals the set of tool_call_id values referenced by the tool messages that
\* follow, orphan references excepted.
C13_AnsweredIdSetsEqual ==
    (mode = "request" /\ rpc = "sent" /\ EveryCallAnswered(InputMessages)) =>
        CallsReferenced(payload.messages)

C13_Witness ==
    /\ mode = "request"
    /\ rpc = "sent"
    /\ reqPath = "openai"
    /\ EveryCallAnswered(InputMessages)
    /\ \E i \in DOMAIN InputMessages : IdCall1 \in InCallIds(InputMessages[i])
    /\ \E p \in DOMAIN payload.messages : OutCallIds(payload.messages[p]) # {}

\* the tool messages of a request, in order
ToolMessages(messages) ==
    LET IsTool(msg) == msg.role = "tool" IN SelectSeq(messages, IsTool)

\* the ids of all tool calls of the request as the client sent it
AllInCallIds(messages) == UNION {InCallIds(messages[i]) : i \in DOMAIN messages}

\* C14 as stated: every tool-call id in an outbound OpenAI request, on an
\* assistant tool_call or on a tool message's tool_call_id, is exactly 9
\* characters drawn from [a-zA-Z0-9].
C14_AllIdsNineAlnum ==
    (mode = "request" /\ rpc = "sent") =>
        \A y \in AllOutIds(payload.messages) : IsMistralId(y)

\* C14 amended: every non-empty id of an assistant tool_call, and every
\* tool_call_id of a tool message that matches a tool_call of the request, is
\* exactly 9 characters drawn from [a-zA-Z0-9] in the outbound request; the
\* OpenAI path leaves an empty tool_call id and an orphan tool_call_id as
\* they are, the Anthropic path normalizes every id.
C14_MatchedIdsNineAlnum ==
    (mode = "request" /\ rpc = "sent") =>
        LET inTools == ToolMessages(InputMessages)
            outTools == ToolMessages(payload.messages)
        IN
        /\ \A p \in DOMAIN payload.messages : \A y \in OutCallIds(payload.messages[p]) :
              (y # <<>> \/ reqPath = "anthropic") => IsMistralId(y)
        /\ reqPath = "anthropic" =>
              \A k \in DOMAIN outTools : IsMistralId(outTools[k].tool_call_id)
        /\ reqPath = "openai" =>
              /\ Len(outTools) = Len(inTools)
              /\ \A k \in DOMAIN outTools :
                    IF inTools[k].tool_call_id \in AllInCallIds(InputMessages)
                    THEN IsMistralId(outTools[k].tool_call_id)
                    ELSE outTools[k].tool_call_id = inTools[k].tool_call_id

C14_Witness ==
    /\ mode = "request"
    /\ rpc = "sent"
    /\ reqPath = "openai"
    /\ \E k \in DOMAIN ToolMessages(InputMessages) :
          /\ ToolMessages(InputMessages)[k].tool_call_id \in AllInCallIds(InputMessages)
          /\ ~IsMistralId(ToolMessages(InputMessages)[k].tool_call_id)
          /\ IsMistralId(ToolMessages(payload.messages)[k].tool_call_id)

\* the tool_use_ids of the tool_result blocks that anthropicToOpenAI turns
\* into tool messages, in order
RECURSIVE ToolResultSeq(_)
ToolResultSeq(messages) ==
    IF messages = <<>> THEN <<>>
    ELSE LET msg == Head(messages)
             results == IF msg.role = "user" /\ ~msg.isString
                        THEN BlocksOf(msg.blocks, "tool_result") ELSE <<>>
         IN  [k \in DOMAIN results |-> results[k].id] \o ToolResultSeq(Tail(messages))

\* the ids the tool results of the request refer to, in order, as the client
\* sent them
InRefSeq ==
    IF reqPath = "anthropic" THEN ToolResultSeq(anthropicBody.messages)
    ELSE [k \in DOMAIN ToolMessages(openaiBody.messages) |->
             ToolMessages(openaiBody.messages)[k].tool_call_id]

\* the same ids after the request has been rewritten
OutRefSeq ==
    IF rpc = "normalized" THEN ToolResultSeq(payload.messages)
    ELSE [k \in DOMAIN ToolMessages(payload.messages) |->
             ToolMessages(payload.messages)[k].tool_call_id]

OrphansUnchanged ==
    /\ Len(OutRefSeq) = Len(InRefSeq)
    /\ \A k \in DOMAIN InRefSeq :
          InRefSeq[k] \notin AllInCallIds(InputMessages) => OutRefSeq[k] = InRefSeq[k]

\* C15 as stated: an id that appears only on a tool result (a tool message's
\* tool_call_id or an Anthropic tool_result.tool_use_id), with no matching
\* tool_call or tool_use in the same request, is left unchanged by
\* normalization, on the OpenAI path and on the Anthropic path alike.
C15_OrphanIdUnchanged ==
    (mode = "request" /\ rpc \in {"sent", "normalized"}) => OrphansUnchanged

\* C15 amended: such an id is left unchanged by the two-sweep passes
\* normalizeOpenAIToolIds and normalizeToolCallIds; anthropicToOpenAI
\* normalizes every tool_result.tool_use_id, matched or not.
C15_OrphanIdUnchangedByPass ==
    (mode = "request"
        /\ (rpc = "normalized" \/ (rpc = "sent" /\ reqPath = "openai"))) =>
        OrphansUnchanged

C15_Witness ==
    /\ mode = "request"
    /\ rpc = "normalized"
    /\ AllInCallIds(InputMessages) # {}
    /\ payload # anthropicBody
    /\ \E k \in DOMAIN InRefSeq :
          InRefSeq[k] \notin AllInCallIds(InputMessages) /\ OutRefSeq[k] = InRefSeq[k]

------------------------------------------------------------------------------
(* Tool-call id normalization as a function, and the id map of one request *)

IdAlphabet == {"a", "_"}

IdValid == <<"a","b","c","d","e","f","g","h","i">>

IdNineWithUnderscore == <<"a","b","c","d","e","f","g","h","_">>

IdLong == <<"c","a","l","l","_","v","e","r","y","_","l","o","n","g","_","i","d">>

IdCall12 == <<"c","a","l","l","_","1","2">>

IdCall21 == <<"c","a","l","l","_","2","1">>

IdCall153049 == <<"c","a","l","l","_","1","5","3","0","4","9">>

IdToolu248 == <<"t","o","o","l","u","_","2","4","8">>

\* what the utils copy makes of call_1: an id a backend could have issued
IdCall1Normalized == <<"g","M","y","T","T","K","J","5","y">>

IdInputs ==
    UNION {[1..n -> IdAlphabet] : n \in 0..MaxIdLen}
    \cup {IdValid, IdNineWithUnderscore, IdLong, IdCall1, IdCall1Normalized,
          IdCall12, IdCall21, IdCall153049, IdToolu248}

InitIds ==
    /\ mode = "ids"
    /\ StreamIdle
    /\ HandlerIdle
    /\ RequestIdle
    /\ ParseIdle
    /\ AuxIdle
    /\ idCopy \in {"utils", "types"}
    /\ idMap = <<>>
    /\ renorm = <<>>

\* an id of the request is normalized and entered in the map
Normalize ==
    /\ mode = "ids"
    /\ Cardinality(DOMAIN idMap) < MaxIds
    /\ \E id \in IdInputs \ DOMAIN idMap :
          idMap' = idMap @@ (id :> normalizeToolId(idCopy, id))
    /\ UNCHANGED <<mode, streamVars, handlerVars, reqVars, parseVars, auxVars, idCopy, renorm>>

\* the normalized id comes back in a later request and is normalized again
Renormalize ==
    /\ mode = "ids"
    /\ \E id \in (DOMAIN idMap) \ (DOMAIN renorm) :
          renorm' = renorm @@ (id :> normalizeToolId(idCopy, idMap[id]))
    /\ UNCHANGED <<mode, streamVars, handlerVars, reqVars, parseVars, auxVars, idCopy, idMap>>

NextIds ==
    \/ Normalize
    \/ Renormalize

SpecIds == InitIds /\ [][NextIds]_vars

\* C16: within one request two distinct original ids are never rewritten to
\* the same 9-character id.
C16_Injective ==
    mode = "ids" =>
        \A a \in DOMAIN idMap, b \in DOMAIN idMap : a # b => idMap[a] # idMap[b]

NineAlnum(id) == Len(id) = 9 /\ \A i \in DOMAIN id : id[i] \in AlnumChars

\* C17: normalize(normalize(id)) = normalize(id) for every id, the empty
\* string and ids longer than 9 characters included; every output is 9
\* characters of [a-zA-Z0-9]; an id already of that shape is returned as is.
C17_Idempotent ==
    mode = "ids" =>
        /\ \A id \in DOMAIN renorm : renorm[id] = idMap[id]
        /\ \A id \in DOMAIN idMap :
              /\ NineAlnum(idMap[id])
              /\ NineAlnum(id) => idMap[id] = id

C17_Witness ==
    /\ mode = "ids"
    /\ {<<>>, IdLong} \subseteq DOMAIN renorm
    /\ idMap[IdLong] # IdLong
    /\ renorm[IdLong] = idMap[IdLong]
    /\ renorm[<<>>] = idMap[<<>>]

------------------------------------------------------------------------------
(* Inline [TOOL_CALLS] of Mistral-family models in the translated stream *)

Devstral == <<"D","e","v","s","t","r","a","l">>

\* the translator that buffers for [TOOL_CALLS], serving a Mistral-family model
MistralInline == mode = "stream" /\ impl = "types" /\ model = Devstral

\* C18: in Mistral inline mode, for every split of the content into deltas,
\* no emitted text_delta contains the literal [TOOL_CALLS], and neither does
\* the concatenation of the emitted text_deltas.
C18_NoMarkerInText ==
    MistralInline =>
        /\ \A i \in DOMAIN out :
              (out[i].type = "content_block_delta" /\ out[i].kind = "text_delta") =>
                  ~Includes(out[i].text, Marker)
        /\ ~Includes(TextOf(out), Marker)

\* text was emitted from the window before the marker arrived in two pieces
C18_Witness ==
    /\ MistralInline
    /\ Includes(inputText, Marker)
    /\ TextOf(out) # <<>>
    /\ phase = "finished"

SearchCallText == Marker \o <<"s","e","a","r","c","h">> \o PieceSearchArgs

SearchName == <<"s","e","a","r","c","h">>

\* the content [TOOL_CALLS]search{"q":"x"} has arrived in several content
\* deltas and the chunk with the finish_reason has been translated
SearchCallFinished ==
    /\ MistralInline
    /\ inputText = SearchCallText
    /\ nDeltas >= 2
    /\ sentTools = 0
    /\ phase = "finished"

\* C19: with a Mistral model, content [TOOL_CALLS]search{"q":"x"} arriving
\* across several deltas and then a finish_reason, the emitted sequence is
\* exactly message_start, content_block_start of a tool_use named search,
\* content_block_stop, message_delta with stop_reason tool_use, message_stop;
\* no text block is emitted.
C19_InlineCallSequence ==
    SearchCallFinished =>
        /\ Len(out) = 5
        /\ out[1].type = "message_start"
        /\ out[2] = BlockStart(0, "tool_use", SearchName)
        /\ out[3] = BlockStop(0)
        /\ out[4].type = "message_delta"
        /\ out[4].stop_reason = "tool_use"
        /\ out[5] = MessageStop
        /\ TextOf(out) = <<>>

C19_Witness ==
    /\ SearchCallFinished
    /\ nDeltas = 3
    /\ EmitsToolUse(out)

------------------------------------------------------------------------------
(* parseMistralToolCalls as a function of the model's text *)

SegGood == Marker \o <<"f","{","}">>

SegUnbalanced == Marker \o <<"u","{">>

SegNoBrace == Marker \o <<"n"," ">>

SegNoName == Marker \o <<" ">>

SegBadJson == Marker \o <<"b","{","x","}">>

SegClose == <<"}">>

SegQuote == <<"\"">>

SegPlain == <<"h","i">>

Segments == {SegGood, SegUnbalanced, SegNoBrace, SegNoName, SegBadJson, SegClose,
             SegQuote, SegPlain}

ParseInputs == {Concat(segs) : segs \in UNION {[1..n -> Segments] : n \in 0..MaxSegs}}

InitParse ==
    /\ mode = "parse"
    /\ StreamIdle
    /\ HandlerIdle
    /\ RequestIdle
    /\ IdsIdle
    /\ AuxIdle
    /\ parseInput \in ParseInputs
    /\ parseOutput = "pending"

\* const parsedTools = parseMistralToolCalls(textBuffer)
Parse ==
    /\ mode = "parse"
    /\ parseOutput = "pending"
    /\ parseOutput' = parseMistralToolCalls(parseInput)
    /\ UNCHANGED <<mode, streamVars, handlerVars, reqVars, idVars, auxVars, parseInput>>

NextParse == Parse

SpecParse == InitParse /\ [][NextParse]_vars

\* the marker stands at position p of the text
MarkerAt(text, p) == p + Len(Marker) <= Len(text) /\ Slice(text, p, p + Len(Marker)) = Marker

\* the occurrence at p: its name, and its balanced braces if it has them
NameEndAt(text, p) == WordEnd(text, p + Len(Marker))

BracesAt(text, p) == extractBalancedJson(text, NameEndAt(text, p))

\* marker, a name, balanced braces right after the name, and JSON that parses
WellFormedAt(text, p) ==
    /\ MarkerAt(text, p)
    /\ NameEndAt(text, p) > p + Len(Marker)
    /\ ~BracesAt(text, p).isNull
    /\ JsonParses(BracesAt(text, p).value)

\* p lies inside the balanced braces of an earlier occurrence
EnclosedAt(text, p) ==
    \E q \in 0..(p - 1) :
        /\ MarkerAt(text, q)
        /\ NameEndAt(text, q) > q + Len(Marker)
        /\ ~BracesAt(text, q).isNull
        /\ NameEndAt(text, q) + Len(BracesAt(text, q).value) > p

CallAt(text, p) ==
    [name |-> Slice(text, p + Len(Marker), NameEndAt(text, p)),
     arguments |-> BracesAt(text, p).value]

\* the calls at the wanted positions from p on, in text order
RECURSIVE CallsFrom(_, _, _)
CallsFrom(text, p, wanted) ==
    IF p >= Len(text) THEN <<>>
    ELSE (IF p \in wanted THEN <<CallAt(text, p)>> ELSE <<>>)
         \o CallsFrom(text, p + 1, wanted)

Positions(text) == 0..(Len(text) - 1)

\* a is b with some elements left out
RECURSIVE IsSubsequence(_, _)
IsSubsequence(a, b) ==
    IF a = <<>> THEN TRUE
    ELSE IF b = <<>> THEN FALSE
    ELSE IF Head(a) = Head(b) THEN IsSubsequence(Tail(a), Tail(b))
    ELSE IsSubsequence(a, Tail(b))

TopLevelWellFormedAt(text, p) == WellFormedAt(text, p) /\ ~EnclosedAt(text, p)

\* C20 as stated: parseMistralToolCalls terminates on every input, and an
\* occurrence of [TOOL_CALLS] with unbalanced braces, with a name not followed
\* by {, or with JSON that does not parse is skipped without aborting, so
\* every other well-formed occurrence is still returned.
C20_EveryWellFormedReturned ==
    (mode = "parse" /\ parseOutput # "pending") =>
        IsSubsequence(
            CallsFrom(parseInput, 0,
                      {p \in Positions(parseInput) : WellFormedAt(parseInput, p)}),
            parseOutput)

\* C20 amended: ... so every other well-formed occurrence that does not lie
\* inside the balanced braces of an earlier occurrence is still returned.
C20_TopLevelWellFormedReturned ==
    (mode = "parse" /\ parseOutput # "pending") =>
        IsSubsequence(
            CallsFrom(parseInput, 0,
                      {p \in Positions(parseInput) : TopLevelWellFormedAt(parseInput, p)}),
            parseOutput)

\* a call is returned although an unbalanced, a brace-less and an unparsable
\* occurrence stand before it
C20_Witness ==
    /\ mode = "parse"
    /\ parseOutput # "pending"
    /\ parseInput \in {SegUnbalanced \o SegBadJson \o SegGood,
                        SegNoBrace \o SegBadJson \o SegGood}
    /\ Len(parseOutput) = 1

-----------------------------------------------------------------------------
(* The translator's input as it arrives: the upstream's bytes, cut into    *)
(* chunks by the network.  streamBackend yields one string per             *)
(* reader.read(); convertOpenAIStreamToAnthropic splits each of them on    *)
(* "\n" and runs its loop body on every piece.                             *)

NewLine == "\n"

DataPrefix == <<"d","a","t","a",":"," ">>

DoneSentinel == <<"[","D","O","N","E","]">>

StartsWith(text, prefix) ==
    Len(text) >= Len(prefix) /\ SubSeq(text, 1, Len(prefix)) = prefix

\* String.prototype.trim on a text that holds no line break
Trim(text) == TrimEnd(TrimStart(text))

\* rawChunk.split('\n'): the pieces between consecutive line breaks
SplitLines(text) ==
    LET breaks == {i \in 1..Len(text) : text[i] = NewLine}
        \* position of the k-th line break; 0 and Len(text) + 1 close the ends
        BreakAt(k) == IF k = 0 THEN 0
                      ELSE IF k > Cardinality(breaks) THEN Len(text) + 1
                      ELSE CHOOSE i \in breaks :
                               Cardinality({m \in breaks : m < i}) = k - 1
    IN  [k \in 1..(Cardinality(breaks) + 1) |->
            SubSeq(text, BreakAt(k - 1) + 1, BreakAt(k) - 1)]

\* the payloads an OpenAI-compatible upstream sends
PayloadText ==
    <<"{","\"","c","h","o","i","c","e","s","\"",":","[","{","\"","d","e",
      "l","t","a","\"",":","{","\"","c","o","n","t","e","n","t","\"",":",
      "\"","H","i","\"","}","}","]","}">>

PayloadFinish ==
    <<"{","\"","c","h","o","i","c","e","s","\"",":","[","{","\"","d","e",
      "l","t","a","\"",":","{","}",",","\"","f","i","n","i","s","h","_","r",
      "e","a","s","o","n","\"",":","\"","s","t","o","p","\"","}","]","}">>

PayloadUsage ==
    <<"{","\"","u","s","a","g","e","\"",":","{","\"","p","r","o","m","p",
      "t","_","t","o","k","e","n","s","\"",":","7",",","\"","c","o","m","p",
      "l","e","t","i","o","n","_","t","o","k","e","n","s","\"",":","2","}",
      "}">>

\* a payload that was cut short by the upstream
PayloadBroken ==
    <<"{","\"","c","h","o","i","c","e","s","\"",":","[","{","\"","d","e",
      "l","t","a","\"",":">>

\* the object JSON.parse returns for a text that parses
DecodeChunk(data) ==
    IF data = PayloadText THEN Chunk(FALSE, 0, 0, TRUE, PieceShort, <<>>, "")
    ELSE IF data = PayloadFinish THEN Chunk(FALSE, 0, 0, TRUE, <<>>, <<>>, "stop")
    ELSE IF data = PayloadUsage THEN Chunk(TRUE, 7, 2, FALSE, <<>>, <<>>, "")
    ELSE Chunk(FALSE, 0, 0, FALSE, <<>>, <<>>, "")

ParseChunk_Lenient(data) == Some(Chunk(FALSE, 0, 0, TRUE, data, <<>>, ""))

\* try { chunk = JSON.parse(data) } catch { continue }: Null is the catch
ParseChunk(data) ==
    IF JsonParses(data) THEN Some(DecodeChunk(data)) ELSE Null

\* one iteration of for (const line of lines)
ProcessRawLine(s, line) ==
    IF ~StartsWith(line, DataPrefix) THEN s
    ELSE LET data == Trim(SliceFrom(line, 6))
         IN  IF data = DoneSentinel THEN s
             ELSE LET parsed == ParseChunk(data)
                  IN  IF parsed.isNull THEN s
                      ELSE ProcessLine(s, parsed.value)

RECURSIVE ProcessLines(_, _)
ProcessLines(s, lines) ==
    IF lines = <<>> THEN s
    ELSE ProcessLines(ProcessRawLine(s, Head(lines)), Tail(lines))

\* one iteration of for await (const rawChunk of stream)
ProcessRawChunk(s, rawChunk) == ProcessLines(s, SplitLines(rawChunk))

LineComment == <<":"," ","p","i","n","g">>

LineText == DataPrefix \o PayloadText

LineFinish == DataPrefix \o PayloadFinish

LineUsage == DataPrefix \o PayloadUsage

LineBroken == DataPrefix \o PayloadBroken

LineDone == DataPrefix \o DoneSentinel

RECURSIVE WireOf(_)
\* an SSE body: every line is followed by a blank line
WireOf(lines) ==
    IF lines = <<>> THEN <<>>
    ELSE Head(lines) \o <<NewLine, NewLine>> \o WireOf(Tail(lines))

ScriptPlain == <<LineText, LineFinish, LineUsage, LineDone>>

ScriptNoisy == <<LineComment, LineText, LineBroken, LineFinish, LineDone>>

Wires == {WireOf(ScriptPlain), WireOf(ScriptNoisy)}

InitWire ==
    /\ mode = "wire"
    /\ HandlerIdle
    /\ RequestIdle
    /\ IdsIdle
    /\ ParseIdle
    /\ impl \in {"utils", "types"}
    /\ model = <<"g","p","t">>
    /\ pc = "start"
    /\ phase = "deltas"
    /\ nDeltas = 0
    /\ sentTools = 0
    /\ usageSent = FALSE
    /\ inputText = <<>>
    /\ inputTokens \in EstimatedInputs
    /\ outputTokens = 0
    /\ contentIndex = 0
    /\ isFirstContent = TRUE
    /\ toolCalls = <<>>
    /\ finalStopReason = "null"
    /\ messageStopped = FALSE
    /\ textBuffer = <<>>
    /\ mistralToolCallsDetected = FALSE
    /\ out = <<>>
    /\ wire \in Wires
    /\ wirePos = 0
    /\ TallyIdle
    /\ RouteIdle
    /\ ResIdle
    /\ LateIdle

\* the next reader.read() resolves with the next n bytes of the body
ReceiveChunk ==
    /\ mode = "wire" /\ pc = "run" /\ wirePos < Len(wire)
    /\ \E n \in 1..(Len(wire) - wirePos) :
          /\ Apply(ProcessRawChunk(Locals, Slice(wire, wirePos, wirePos + n)))
          /\ wirePos' = wirePos + n
    /\ UNCHANGED <<reqVars, idVars, parseVars, handlerVars, mode, impl, model, pc,
                   phase, nDeltas, sentTools, usageSent, inputText, wire, tallyVars,
                   routeVars, resVars, lateVars>>

\* the body is exhausted: for await ends and the translator returns
WireEnd ==
    /\ mode = "wire" /\ pc = "run" /\ wirePos = Len(wire)
    /\ pc' = "done"
    /\ UNCHANGED <<reqVars, idVars, parseVars, auxVars, handlerVars, mode, impl, model,
                   phase, nDeltas, sentTools, usageSent, inputText,
                   inputTokens, outputTokens, contentIndex, isFirstContent,
                   toolCalls, finalStopReason, messageStopped, textBuffer,
                   mistralToolCallsDetected, out>>

NextWire == Start \/ ReceiveChunk \/ WireEnd

SpecWire == InitWire /\ [][NextWire]_vars

\* the translator's locals after message_start, before the first chunk
StartLocals(estimated) ==
    [inputTokens |-> estimated, outputTokens |-> 0, contentIndex |-> 0,
     isFirstContent |-> TRUE, toolCalls |-> <<>>, finalStopReason |-> "null",
     messageStopped |-> FALSE, textBuffer |-> <<>>,
     mistralToolCallsDetected |-> FALSE, out |-> <<MessageStart(estimated)>>]

\* what is emitted when the whole body arrives as one chunk
WholeTranslation(estimated, body_) ==
    ProcessRawChunk(StartLocals(estimated), body_).out

\* C21: for a fixed upstream byte sequence the emitted events are the same
\* for every way of cutting it into chunks, cuts inside a data line included:
\* when the translator returns, it has emitted what it emits for the uncut body.
C21_SplitInvariant ==
    (mode = "wire" /\ pc = "done") =>
        \E e \in EstimatedInputs : out = WholeTranslation(e, wire)

\* a line the loop body leaves with continue before it reads any field
SkippedLine(line) ==
    \/ ~StartsWith(line, DataPrefix)
    \/ Trim(SliceFrom(line, 6)) = DoneSentinel
    \/ ~JsonParses(Trim(SliceFrom(line, 6)))

ScriptQuiet == <<LineText, LineFinish>>

\* C22: a line that does not begin with "data: ", the [DONE] sentinel and a
\* data line whose payload fails JSON.parse produce no event, do not end the
\* translation and leave the translator's state as it was: a chunk made of
\* such lines only changes nothing but the read position.
C22_SkippedLinesChangeNothing ==
    [][(mode = "wire" /\ pc = "run" /\ wirePos' > wirePos
        /\ \A line \in Range(SplitLines(Slice(wire, wirePos, wirePos'))) :
               SkippedLine(line))
       => (Locals' = Locals /\ pc' = "run")]_vars

\* a body with a comment line, a broken payload and [DONE] has been translated
\* to the events of the body without them
C22_Witness ==
    /\ mode = "wire" /\ pc = "done"
    /\ wire = WireOf(ScriptNoisy)
    /\ \E e \in EstimatedInputs : out = WholeTranslation(e, WireOf(ScriptQuiet))
    /\ HasType(out, "content_block_delta")

-----------------------------------------------------------------------------
(* Block indexes of tool calls *)

StartsOf(events) == {i \in DOMAIN events : events[i].type = "content_block_start"}

\* C23: every tool-call slot the upstream opens gets a tool_use block of its
\* own, and no two content_block_start events of one stream carry the same
\* index.
C23_StartIndexesDistinct ==
    mode = "stream" =>
        /\ \A i, j \in StartsOf(out) : out[i].index = out[j].index => i = j
        /\ \A k \in 0..(sentTools - 1) :
               Cardinality({i \in StartsOf(out) :
                   out[i].kind = "tool_use" /\ out[i].name = ToolName(k)}) = 1


-----------------------------------------------------------------------------
(* Token accounting of the translated stream *)

MessageDeltasOf(events) == {i \in DOMAIN events : events[i].type = "message_delta"}

\* the last message_delta of the stream
FinalMessageDelta(events) ==
    events[CHOOSE i \in MessageDeltasOf(events) :
               \A j \in MessageDeltasOf(events) : j <= i]

\* C24: output_tokens of the final message_delta is the larger of the number
\* of content deltas translated and the upstream's completion_tokens.
C24_OutputTokensIsMax ==
    (mode = "stream" /\ pc = "done" /\ MessageDeltasOf(out) # {}) =>
        FinalMessageDelta(out).output_tokens = Max(nContent, upstreamCompletion)

-----------------------------------------------------------------------------
(* Route handlers: gateway key, backend selection, outbound credential,    *)
(* the upstream call and the request metric.  One request is followed from *)
(* its arrival to the end of its response.                                 *)

\* the handlers that serve an inference request
AnthropicEntries == {"anthropicRoutes", "createAnthropicMessagesHandler",
                     "handleAnthropicRequest"}

OpenAIEntries == {"openaiRoutes", "handleChatCompletions"}

\* the handlers registered for POST /v1/messages
MessagesEndpoint == {"anthropicRoutes", "createAnthropicMessagesHandler"}

Entries == AnthropicEntries \cup OpenAIEntries

Falsy(v) == v = Undefined \/ v = Bare("")

GatewayKey == "sk-gateway"

BackendKey == "sk-backend"

UrlCluster == <<"h","t","t","p",":","/","/","v",".","c","l","u","s","t","e","r",".","l","o","c","a","l",":","8","0","0","0">>

UrlExternal == <<"h","t","t","p","s",":","/","/","a","p","i",".","x",".","i","o">>

UrlPlainHttp == <<"h","t","t","p",":","/","/","a","p","i",".","x",".","i","o">>

UrlSuffixInPath == <<"h","t","t","p","s",":","/","/","x",".","i","o","/",".","c","l","u","s","t","e","r",".","l","o","c","a","l">>

BackendUrls == {UrlCluster, UrlExternal, UrlPlainHttp, UrlSuffixInPath}

ClusterSuffix == <<".","c","l","u","s","t","e","r",".","l","o","c","a","l">>

\* isInternalService, src/utils/auth.ts
isInternalService(url) == Includes(url, ClusterSuffix)

\* getBackendAuth, src/utils/auth.ts
getBackendAuth(url, apiKey, clientAuth) ==
    IF isInternalService(url) THEN apiKey
    ELSE IF ~Falsy(apiKey) THEN apiKey ELSE clientAuth

\* isInternalBackend of the Anthropic handler
isInternalBackend(url) ==
    Includes(url, ClusterSuffix) \/ StartsWith(url, <<"h","t","t","p",":","/","/">>)

\* getAuthHeader of the Anthropic handler; Null is the throw
getAuthHeader(url, apiKey, clientAuthHeader) ==
    IF isInternalBackend(url) THEN Some(Bearer(apiKey.token))
    ELSE IF Falsy(clientAuthHeader) THEN Null
    ELSE Some(clientAuthHeader)

\* callBackend: headers['Authorization'] = auth.startsWith('Bearer ') ? auth : `Bearer ${auth}`
AuthorizationHeader(a) ==
    IF Falsy(a) THEN Undefined
    ELSE IF a.scheme = "Bearer" THEN a ELSE Bearer(a.token)

\* BackendSelector.hasAnthropicVision / hasOpenAIVision
hasAnthropicVision(messages) ==
    \E i \in DOMAIN messages :
        /\ ~messages[i].isString
        /\ \E b \in DOMAIN messages[i].blocks : messages[i].blocks[b].type = "image"

\* hasOpenAIImages of the chat completions handler
hasOpenAIImages(messages) == hasAnthropicVision(messages)

\* BackendSelector.select
select(messages, vision) ==
    IF hasAnthropicVision(messages) /\ vision THEN "vision" ELSE "default"

UserImages(m) ==
    m.role = "user" /\ ~m.isString
    /\ \E b \in DOMAIN m.blocks : m.blocks[b].type = "image"

lastMessageHasImages(messages) ==
    messages # <<>> /\ UserImages(messages[Len(messages)])

historyHasImages(messages) ==
    \E i \in 1..(Len(messages) - 1) : UserImages(messages[i])

\* an image block becomes a text block; a message of text blocks only becomes a string
WithoutImages(m) ==
    IF UserImages(m) THEN AMsg(m.role, TRUE, TextU, <<>>) ELSE m

processImagesInLastMessage(messages) ==
    [i \in DOMAIN messages |->
        IF i = Len(messages) THEN WithoutImages(messages[i]) ELSE messages[i]]

removeImagesFromHistory(messages) ==
    [i \in DOMAIN messages |->
        IF i < Len(messages) THEN WithoutImages(messages[i]) ELSE messages[i]]

\* AnthropicRouter.handleAnthropicRequest: the request handed to the selector
ProcessedRequest(messages, vision) ==
    IF lastMessageHasImages(messages) /\ vision
    THEN removeImagesFromHistory(processImagesInLastMessage(messages))
    ELSE IF historyHasImages(messages) THEN removeImagesFromHistory(messages)
    ELSE messages

RouteMessages ==
    { AMsg("user", TRUE, TextU, <<>>),
      AMsg("assistant", TRUE, TextA, <<>>),
      AMsg("user", FALSE, <<>>, <<TextBlock, ImageBlock>>) }

RouteBodies == UNION {[1..n -> RouteMessages] : n \in 1..MaxMsgs}

InboundAuthorizations == {Undefined, Bearer(GatewayKey), Bearer("sk-other")}

InboundApiKeys == {Undefined, Bare(GatewayKey)}

InitRoute ==
    /\ mode = "route"
    /\ StreamIdle
    /\ HandlerIdle
    /\ RequestIdle
    /\ IdsIdle
    /\ ParseIdle
    /\ WireIdle
    /\ TallyIdle
    /\ ResIdle
    /\ LateIdle
    /\ entry \in Entries
    /\ routeBody \in RouteBodies
    /\ wantStream \in BOOLEAN
    /\ visionBackend \in BOOLEAN
    /\ backendUrl \in BackendUrls
    /\ backendApiKey \in {Bare(""), Bare(BackendKey)}
    /\ authorization \in InboundAuthorizations
    /\ xApiKey \in InboundApiKeys
    /\ rtpc = "received"
    /\ backend = "none"
    /\ auth = Undefined
    /\ posts = 0
    /\ visionCalls = 0
    /\ replyCode = 0
    /\ errorSent = "none"
    /\ requestsTotal = "none"
    /\ upstream = "none"

RouteConfig == <<entry, routeBody, wantStream, visionBackend, backendUrl,
                 backendApiKey, authorization, xApiKey>>

RouteRest == <<mode, streamVars, handlerVars, reqVars, idVars, parseVars,
               wireVars, tallyVars, resVars, lateVars, RouteConfig>>

\* const apiKey = authHeader?.replace('Bearer ', '') || request.headers['x-api-key']
PresentedKey ==
    IF ~Falsy(authorization) /\ authorization.token # "" THEN authorization.token
    ELSE IF Falsy(xApiKey) THEN "" ELSE xApiKey.token

ChecksGatewayKey(e) == e = "createAnthropicMessagesHandler"

\* the head of the handler: if (apiKey !== ctx.config.apiKey) { reply.code(401) ... }
Authenticate ==
    /\ mode = "route" /\ rtpc = "received"
    /\ IF ChecksGatewayKey(entry) /\ PresentedKey # GatewayKey
       THEN /\ replyCode' = 401
            /\ errorSent' = "body"
            /\ rtpc' = "done"
       ELSE /\ rtpc' = "authorized"
            /\ UNCHANGED <<replyCode, errorSent>>
    /\ UNCHANGED <<RouteRest, backend, auth, posts, visionCalls, requestsTotal, upstream>>

\* the header the handler passes on: createAnthropicMessagesHandler calls the
\* router with the body alone
ForwardedAuthorization ==
    IF entry = "createAnthropicMessagesHandler" THEN Undefined ELSE authorization

SelectedBackend ==
    CASE entry \in {"anthropicRoutes", "openaiRoutes"} -> "default"
      [] entry = "handleChatCompletions" ->
            IF hasOpenAIImages(routeBody) /\ visionBackend THEN "vision" ELSE "default"
      [] OTHER -> select(ProcessedRequest(routeBody, visionBackend), visionBackend)

SelectedAuth ==
    IF entry \in {"anthropicRoutes", "openaiRoutes", "handleChatCompletions"}
    THEN LET a == getBackendAuth(backendUrl, backendApiKey, ForwardedAuthorization)
         IN  Some(IF a = Undefined THEN Bare("") ELSE a)
    ELSE getAuthHeader(backendUrl, backendApiKey, ForwardedAuthorization)

\* what the handler answers when something it awaits throws before the
\* response has started
FailBeforeResponse ==
    /\ rtpc' = "done"
    /\ IF entry = "handleAnthropicRequest"
       THEN errorSent' = "thrown" /\ UNCHANGED replyCode
       ELSE IF entry = "createAnthropicMessagesHandler" /\ wantStream
       THEN errorSent' = "sse" /\ replyCode' = 200
       ELSE errorSent' = "body" /\ replyCode' = 500

\* backend selection and auth composition, up to the outbound call
Select ==
    /\ mode = "route" /\ rtpc = "authorized"
    /\ backend' = SelectedBackend
    /\ visionCalls' = IF entry \in {"createAnthropicMessagesHandler", "handleAnthropicRequest"}
                         /\ lastMessageHasImages(routeBody) /\ visionBackend
                      THEN visionCalls + 1 ELSE visionCalls
    /\ IF SelectedAuth.isNull
       THEN /\ FailBeforeResponse
            /\ UNCHANGED auth
       ELSE /\ auth' = AuthorizationHeader(SelectedAuth.value)
            /\ rtpc' = "selected"
            /\ UNCHANGED <<replyCode, errorSent>>
    /\ UNCHANGED <<RouteRest, posts, requestsTotal, upstream>>

WritesHeadBeforePost(e) ==
    e \in {"anthropicRoutes", "createAnthropicMessagesHandler"}

\* fetch(url, {method: 'POST', ...}): the inference call leaves the gateway
Post ==
    /\ mode = "route" /\ rtpc = "selected"
    /\ posts' = posts + 1
    /\ rtpc' = IF wantStream THEN "connecting" ELSE "awaiting"
    /\ replyCode' = IF wantStream /\ WritesHeadBeforePost(entry) THEN 200 ELSE replyCode
    /\ UNCHANGED <<RouteRest, backend, auth, visionCalls, errorSent, requestsTotal, upstream>>

RecordsMetrics(e) == e = "handleChatCompletions"

NextAfterFailure_Retry == "selected"

\* catch (e) { reply.code(500); return createApiError(...) }: the handler ends
NextAfterFailure == "done"

\* the unary call returned a 2xx response
UnaryOk ==
    /\ mode = "route" /\ rtpc = "awaiting"
    /\ rtpc' = "done"
    /\ replyCode' = IF entry = "handleAnthropicRequest" THEN replyCode ELSE 200
    /\ requestsTotal' = IF RecordsMetrics(entry) THEN "ok" ELSE requestsTotal
    /\ UNCHANGED <<RouteRest, backend, auth, posts, visionCalls, errorSent, upstream>>

\* fetch rejected or the response was not ok: callBackend throws, the handler catches
UnaryFail ==
    /\ mode = "route" /\ rtpc = "awaiting"
    /\ upstream' = "unary"
    /\ rtpc' = NextAfterFailure
    /\ IF entry = "handleAnthropicRequest"
       THEN errorSent' = "thrown" /\ UNCHANGED replyCode
       ELSE errorSent' = "body" /\ replyCode' = 500
    /\ requestsTotal' = IF RecordsMetrics(entry) THEN "error" ELSE requestsTotal
    /\ UNCHANGED <<RouteRest, backend, auth, posts, visionCalls>>

\* the first chunk of the upstream stream arrived
FirstChunk ==
    /\ mode = "route" /\ rtpc = "connecting"
    /\ rtpc' = "streaming"
    /\ replyCode' = IF entry = "handleAnthropicRequest" THEN replyCode ELSE 200
    /\ UNCHANGED <<RouteRest, backend, auth, posts, visionCalls, errorSent,
                   requestsTotal, upstream>>

\* the upstream failed before its first chunk
ConnectFail ==
    /\ mode = "route" /\ rtpc = "connecting"
    /\ upstream' = "connect"
    /\ rtpc' = NextAfterFailure
    /\ IF entry = "handleAnthropicRequest"
       THEN errorSent' = "thrown" /\ UNCHANGED replyCode
       ELSE IF WritesHeadBeforePost(entry)
       THEN errorSent' = "sse" /\ UNCHANGED replyCode
       ELSE errorSent' = "body" /\ replyCode' = 500
    /\ requestsTotal' = IF RecordsMetrics(entry) THEN "error" ELSE requestsTotal
    /\ UNCHANGED <<RouteRest, backend, auth, posts, visionCalls>>

\* the upstream failed after chunks had been written to the client
MidStreamFail ==
    /\ mode = "route" /\ rtpc = "streaming"
    /\ upstream' = "midstream"
    /\ rtpc' = NextAfterFailure
    /\ errorSent' = IF entry = "handleAnthropicRequest" THEN "thrown" ELSE "sse"
    /\ requestsTotal' = IF RecordsMetrics(entry) THEN "error" ELSE requestsTotal
    /\ UNCHANGED <<RouteRest, backend, auth, posts, visionCalls, replyCode>>

\* the upstream stream ended
StreamDone ==
    /\ mode = "route" /\ rtpc = "streaming"
    /\ rtpc' = "done"
    /\ requestsTotal' = IF RecordsMetrics(entry) THEN "ok" ELSE requestsTotal
    /\ UNCHANGED <<RouteRest, backend, auth, posts, visionCalls, replyCode,
                   errorSent, upstream>>

NextRoute == Authenticate \/ Select \/ Post \/ UnaryOk \/ UnaryFail
                \/ FirstChunk \/ ConnectFail \/ MidStreamFail \/ StreamDone

SpecRoute == InitRoute /\ [][NextRoute]_vars

-----------------------------------------------------------------------------
(* Properties of the route handlers *)

ImageBearing == hasAnthropicVision(routeBody)

\* C25: if any message of the request carries an image block and a vision
\* backend is configured, the inference call targets the vision backend;
\* otherwise it targets the default backend.
C25_ImageRouting ==
    (mode = "route" /\ posts >= 1) =>
        backend = IF ImageBearing /\ visionBackend THEN "vision" ELSE "default"

EndsWith(text, suffix) ==
    Len(text) >= Len(suffix)
    /\ SubSeq(text, Len(text) - Len(suffix) + 1, Len(text)) = suffix

\* the host of a URL: what follows "://" up to the next ":" or "/"
HostOf(url) ==
    LET from == IndexOf(url, <<":","/","/">>, 0) + 3
        stops == {i \in from..(Len(url) - 1) : At(url, i) \in {":", "/"}}
        to == IF stops = {} THEN Len(url)
              ELSE CHOOSE i \in stops : \A j \in stops : i <= j
    IN  Slice(url, from, to)

HostInternal == EndsWith(HostOf(backendUrl), ClusterSuffix)

ClientHeaderUsed == ~Falsy(authorization) /\ auth = AuthorizationHeader(authorization)

\* C26: the inbound Authorization header is the outbound credential only when
\* the backend's host does not end in the cluster suffix and the backend has
\* no configured key; with an internal host the configured key is used.
C26_ClientHeaderOnlyAsFallback ==
    (mode = "route" /\ posts >= 1) =>
        /\ ClientHeaderUsed => (~HostInternal /\ Falsy(backendApiKey))
        /\ (HostInternal /\ ~Falsy(backendApiKey)) => auth = Bearer(BackendKey)

NoGatewayKeyPresented ==
    authorization.token # GatewayKey /\ xApiKey.token # GatewayKey

\* C27: a POST /v1/messages whose gateway key is missing or wrong is answered
\* at once with a 401 error, and no upstream call is made for it.
C27_GatewayKeyRequired ==
    (mode = "route" /\ entry \in MessagesEndpoint /\ NoGatewayKeyPresented
     /\ rtpc # "received") =>
        (rtpc = "done" /\ replyCode = 401 /\ posts = 0 /\ visionCalls = 0)

C29_ErrorMetric ==
    (mode = "route" /\ rtpc = "done" /\ upstream # "none"
     /\ entry # "handleAnthropicRequest") =>
        requestsTotal = "error"

-----------------------------------------------------------------------------
(* Response Transformer: openAIToAnthropic (both copies have the same body) *)

\* an OpenAI response: choices[0] may be missing; finish_reason "" is null or
\* absent, content "absent" is null; usage may be missing
OResponse(hasChoice, content, tool_calls, finish_reason, hasUsage, prompt, completion) ==
    [hasChoice |-> hasChoice, content |-> content, tool_calls |-> tool_calls,
     finish_reason |-> finish_reason, hasUsage |-> hasUsage,
     prompt_tokens |-> prompt, completion_tokens |-> completion]

\* try { input = JSON.parse(call.function.arguments) } catch { input = {raw: ...} }
ToolInput(arguments) ==
    IF JsonParses(arguments) THEN [raw |-> FALSE, text |-> arguments]
    ELSE [raw |-> TRUE, text |-> arguments]

ResponseContent(res) ==
    LET text == IF res.hasChoice /\ res.content # <<>>
                THEN <<[type |-> "text", text |-> res.content, id |-> <<>>,
                        name |-> <<>>, input |-> ToolInput(<<>>)]>>
                ELSE <<>>
        tools == IF res.hasChoice
                 THEN [i \in DOMAIN res.tool_calls |->
                          [type |-> "tool_use", text |-> <<>>,
                           id |-> res.tool_calls[i].id,
                           name |-> res.tool_calls[i].name,
                           input |-> ToolInput(res.tool_calls[i].arguments)]]
                 ELSE <<>>
        content == text \o tools
    IN  IF content = <<>>
        THEN <<[type |-> "text", text |-> <<>>, id |-> <<>>, name |-> <<>>,
                input |-> ToolInput(<<>>)]>>
        ELSE content

ResponseStopReason_EndTurn(res) == "end_turn"

\* let stopReason = null; if (choice?.finish_reason === 'stop') ... else if (choice?.finish_reason) ...
ResponseStopReason(res) ==
    IF ~res.hasChoice THEN "null"
    ELSE IF res.finish_reason = "stop" THEN "end_turn"
    ELSE IF res.finish_reason = "tool_calls" THEN "tool_use"
    ELSE IF res.finish_reason # "" THEN res.finish_reason
    ELSE "null"

openAIToAnthropic(res, modelName) ==
    [type |-> "message", role |-> "assistant", content |-> ResponseContent(res),
     model |-> modelName, stop_reason |-> ResponseStopReason(res),
     input_tokens |-> IF res.hasUsage THEN res.prompt_tokens ELSE 0,
     output_tokens |-> IF res.hasUsage THEN res.completion_tokens ELSE 0]

ResponseFinishReasons == {"", "stop", "tool_calls", "length", "content_filter"}

ResponseContents == {<<>>, PieceShort}

ResponseCalls ==
    { ToolCallDelta(k, ToolId(k), ToolName(k), a) : k \in 0..(MaxTools - 1),
                                                     a \in {PieceSearchArgs, PieceMarkerHead} }

ResponseCallLists == UNION {[1..n -> ResponseCalls] : n \in 0..1}

OpenAIResponses ==
    { OResponse(h, c, tcs, fr, u, 7, 2) :
        h \in BOOLEAN, c \in ResponseContents, tcs \in ResponseCallLists,
        fr \in ResponseFinishReasons, u \in BOOLEAN }

InitResponse ==
    /\ mode = "response"
    /\ StreamIdle
    /\ HandlerIdle
    /\ RequestIdle
    /\ IdsIdle
    /\ ParseIdle
    /\ WireIdle
    /\ TallyIdle
    /\ RouteIdle
    /\ LateIdle
    /\ resCopy \in {"utils", "types"}
    /\ openaiResponse \in OpenAIResponses
    /\ anthropicResponse = <<>>

\* const anthropicResponse = openAIToAnthropic(openaiResponse, model)
ConvertResponse ==
    /\ mode = "response"
    /\ anthropicResponse = <<>>
    /\ anthropicResponse' = <<openAIToAnthropic(openaiResponse, <<"g","p","t">>)>>
    /\ UNCHANGED <<mode, streamVars, handlerVars, reqVars, idVars, parseVars,
                   wireVars, tallyVars, routeVars, lateVars, resCopy, openaiResponse>>

NextResponse == ConvertResponse

SpecResponse == InitResponse /\ [][NextResponse]_vars

Converted == mode = "response" /\ anthropicResponse # <<>>

FinishReasonGiven == openaiResponse.hasChoice /\ openaiResponse.finish_reason # ""

\* C30: openAIToAnthropic maps finish_reason stop to end_turn, tool_calls to
\* tool_use and length to max_tokens, passes any other value through
\* verbatim, and yields stop_reason null when finish_reason is absent.
C30_StopReasonMapping ==
    Converted =>
        anthropicResponse[1].stop_reason =
            IF ~FinishReasonGiven THEN "null"
            ELSE IF openaiResponse.finish_reason = "stop" THEN "end_turn"
            ELSE IF openaiResponse.finish_reason = "tool_calls" THEN "tool_use"
            ELSE IF openaiResponse.finish_reason = "length" THEN "max_tokens"
            ELSE openaiResponse.finish_reason

\* C30 as amended: stop becomes end_turn and tool_calls becomes tool_use; every
\* other value, length included, is passed through verbatim; an absent
\* finish_reason gives stop_reason null.
C30_StopReasonMappingLengthVerbatim ==
    Converted =>
        anthropicResponse[1].stop_reason =
            IF ~FinishReasonGiven THEN "null"
            ELSE IF openaiResponse.finish_reason = "stop" THEN "end_turn"
            ELSE IF openaiResponse.finish_reason = "tool_calls" THEN "tool_use"
            ELSE openaiResponse.finish_reason

\* a response cut off by the token limit has been converted
C30_Witness ==
    /\ Converted
    /\ openaiResponse.hasChoice /\ openaiResponse.finish_reason = "length"
    /\ anthropicResponse[1].stop_reason = "length"

-----------------------------------------------------------------------------
(* Objects of the request transformers.  A payload is a tree of objects:   *)
(* request -> messages array -> message -> content array / tool_calls      *)
(* array -> block / tool call.  Strings and the tools list are values of   *)
(* the object that holds them.  Address 0 is "no object".                  *)

Obj(val, refs) == [val |-> val, refs |-> refs]

\* F applied to the value of v, v being evaluated once
Bind(v, F(_)) == CHOOSE y \in {F(x) : x \in {v}} : TRUE

\* an object or array literal: a new object, the old ones untouched
New(h, val, refs) ==
    Bind(h, LAMBDA x : [h |-> Append(x, Obj(val, refs)), r |-> Len(x) + 1])

Spread_Assign(h, ref, val, refs) == [h |-> [h EXCEPT ![ref] = Obj(val, refs)], r |-> ref]

\* { ...obj, field: value }: a new object next to the one at ref
Spread(h, ref, val, refs) == New(h, val, refs)

\* an array of new leaf objects
NewArrayOf(h, vals) ==
    Bind(h, LAMBDA x :
        New(x \o [i \in 1..Len(vals) |-> Obj(vals[i], <<>>)], <<>>,
            [i \in 1..Len(vals) |-> Len(x) + i]))

LoadLeaves(h, a) ==
    IF a = 0 THEN <<>> ELSE [i \in DOMAIN h[a].refs |-> h[h[a].refs[i]].val]

StoreOMsg(h, m) ==
    Bind(IF m.content.kind = "parts" THEN NewArrayOf(h, m.content.parts)
         ELSE [h |-> h, r |-> 0], LAMBDA p :
    Bind(IF m.hasToolCalls THEN NewArrayOf(p.h, m.tool_calls)
         ELSE [h |-> p.h, r |-> 0], LAMBDA t :
    New(t.h, [m EXCEPT !.content.parts = <<>>, !.tool_calls = <<>>], <<p.r, t.r>>)))

StoreAMsg(h, m) ==
    Bind(IF m.isString THEN [h |-> h, r |-> 0] ELSE NewArrayOf(h, m.blocks), LAMBDA b :
    New(b.h, [m EXCEPT !.blocks = <<>>], <<b.r>>))

RECURSIVE StoreMsgs(_, _, _, _)
StoreMsgs(h, msgs, refs, openai) ==
    IF msgs = <<>> THEN [h |-> h, refs |-> refs]
    ELSE Bind(IF openai THEN StoreOMsg(h, Head(msgs)) ELSE StoreAMsg(h, Head(msgs)),
              LAMBDA m : StoreMsgs(m.h, Tail(msgs), Append(refs, m.r), openai))

StoreReq(h, req, openai) ==
    Bind(StoreMsgs(h, req.messages, <<>>, openai), LAMBDA ms :
    Bind(New(ms.h, <<>>, ms.refs), LAMBDA arr :
    New(arr.h, [req EXCEPT !.messages = <<>>], <<arr.r>>)))

LoadOMsg(h, a) ==
    [h[a].val EXCEPT !.content.parts = LoadLeaves(h, h[a].refs[1]),
                     !.tool_calls = LoadLeaves(h, h[a].refs[2])]

LoadAMsg(h, a) == [h[a].val EXCEPT !.blocks = LoadLeaves(h, h[a].refs[1])]

MessageRefs(h, r) == h[h[r].refs[1]].refs

LoadOReq(h, r) ==
    [h[r].val EXCEPT !.messages = [i \in DOMAIN MessageRefs(h, r) |->
                                      LoadOMsg(h, MessageRefs(h, r)[i])]]

LoadAReq(h, r) ==
    [h[r].val EXCEPT !.messages = [i \in DOMAIN MessageRefs(h, r) |->
                                      LoadAMsg(h, MessageRefs(h, r)[i])]]

\* req.messages.filter(...) and { ...req, messages: filteredMessages }
HeapFilterEmptyAssistantMessages(h, r) ==
    LET Kept(a) == filterEmptyAssistantMessages(
                       [messages |-> <<LoadOMsg(h, a)>>]).messages # <<>>
    IN  Bind(New(h, <<>>, SelectSeq(MessageRefs(h, r), Kept)), LAMBDA arr :
        Spread(arr.h, r, h[r].val, <<arr.r>>))

\* the callback of req.messages.map: a rewritten copy for an assistant
\* message with tool_calls and for a tool message, the message itself otherwise
HeapNormalizeMessage(copy, ids, h, a) ==
    LET m == LoadOMsg(h, a)
        n == NormalizeMessage(copy, ids, m)
    IN  IF m.role = "assistant" /\ m.hasToolCalls
        THEN Bind(NewArrayOf(h, n.tool_calls), LAMBDA calls :
                 Spread(calls.h, a, h[a].val, <<h[a].refs[1], calls.r>>))
        ELSE IF m.role = "tool" /\ m.tool_call_id # <<>>
        THEN Spread(h, a, [h[a].val EXCEPT !.tool_call_id = n.tool_call_id], h[a].refs)
        ELSE [h |-> h, r |-> a]

RECURSIVE HeapNormalizeMessages(_, _, _, _, _)
HeapNormalizeMessages(copy, ids, h, todo, done) ==
    IF todo = <<>> THEN [h |-> h, refs |-> done]
    ELSE Bind(HeapNormalizeMessage(copy, ids, h, Head(todo)), LAMBDA m :
             HeapNormalizeMessages(copy, ids, m.h, Tail(todo), Append(done, m.r)))

HeapNormalizeOpenAIToolIds(copy, h, r) ==
    LET Last(ms) == IF ms.refs = <<>> THEN <<>>
                    ELSE <<LoadOMsg(ms.h, ms.refs[Len(ms.refs)])>>
        Pushed(ms) == IF copy = "types" /\ Len(AppendSentinel(Last(ms))) > Len(Last(ms))
                      THEN Bind(StoreOMsg(ms.h, Sentinel), LAMBDA c :
                               [h |-> c.h, refs |-> Append(ms.refs, c.r)])
                      ELSE ms
    IN  Bind(CallIds(LoadOReq(h, r).messages), LAMBDA ids :
        Bind(HeapNormalizeMessages(copy, ids, h, MessageRefs(h, r), <<>>), LAMBDA ms :
        Bind(Pushed(ms), LAMBDA pushed :
        Bind(New(pushed.h, <<>>, pushed.refs), LAMBDA arr :
        Spread(arr.h, r, h[r].val, <<arr.r>>)))))

\* return req, or { ...req, tools: filteredTools }
HeapRemoveUnsupportedTools(h, r) ==
    IF ~h[r].val.hasTools \/ h[r].val.tools = <<>> THEN [h |-> h, r |-> r]
    ELSE Spread(h, r, removeUnsupportedTools(h[r].val), h[r].refs)

\* every message, part and tool call of the result is an object literal
HeapAnthropicToOpenAI(copy, h, r, vision) ==
    StoreReq(h, anthropicToOpenAI(copy, LoadAReq(h, r), vision), TRUE)

ImageAnalysis(n) ==
    [type |-> "text",
     text |-> <<"[","I","m","a","g","e"," ">> \o ToString36(n) \o <<"]">>]

\* newContent: a new text block for every image, the block itself otherwise
RECURSIVE NewContent(_, _, _, _)
NewContent(h, todo, done, imageCount) ==
    IF todo = <<>> THEN [h |-> h, refs |-> done]
    ELSE IF h[Head(todo)].val.type = "image_url"
    THEN Bind(New(h, ImageAnalysis(imageCount + 1), <<>>), LAMBDA b :
             NewContent(b.h, Tail(todo), Append(done, b.r), imageCount + 1))
    ELSE NewContent(h, Tail(todo), Append(done, Head(todo)), imageCount)

HeapProcessOpenAIImagesInLastMessage(h, r) ==
    LET refs == MessageRefs(h, r)
        lastIndex == Len(refs)
    IN  IF lastIndex = 0 THEN [h |-> h, r |-> r]
        ELSE
        LET lastMessage == refs[lastIndex]
        IN  IF h[lastMessage].val.role # "user" \/ h[lastMessage].val.content.kind # "parts"
            THEN [h |-> h, r |-> r]
            ELSE
            LET Texts(nc) == [i \in DOMAIN nc.refs |-> nc.h[nc.refs[i]].val.text]
                AllText(nc) == \A i \in DOMAIN nc.refs : nc.h[nc.refs[i]].val.type = "text"
            IN  Bind(NewContent(h, h[h[lastMessage].refs[1]].refs, <<>>, 0), LAMBDA nc :
                Bind(IF AllText(nc) THEN [h |-> nc.h, r |-> 0]
                     ELSE New(nc.h, <<>>, nc.refs), LAMBDA content :
                Bind(Spread(content.h, lastMessage,
                            [h[lastMessage].val EXCEPT !.content =
                                IF AllText(nc)
                                THEN StrC(JoinWith(Texts(nc), <<"\n", "\n">>))
                                ELSE PartsC(<<>>)],
                            <<content.r, h[lastMessage].refs[2]>>), LAMBDA msg :
                Bind(New(msg.h, <<>>, [refs EXCEPT ![lastIndex] = msg.r]), LAMBDA newMessages :
                Spread(newMessages.h, r, h[r].val, <<newMessages.r>>)))))

PartText == [type |-> "text", text |-> <<"T">>]

PartImage == [type |-> "image_url", text |-> <<"i","m","g">>]

OpenAIImageMessages ==
    { OMsg("user", PartsC(<<PartText, PartImage>>), FALSE, <<>>, <<>>),
      OMsg("user", PartsC(<<PartImage, PartImage>>), FALSE, <<>>, <<>>) }

HeapOpenAIRequests ==
    [messages : Lists(OpenAIMessages \cup OpenAIImageMessages),
     hasTools : {TRUE},
     tools : {<<NameBash>>},
     hasToolChoice : {FALSE},
     stream : {TRUE},
     include_usage : {FALSE}]

InitHeap ==
    /\ mode = "heap"
    /\ StreamIdle
    /\ HandlerIdle
    /\ RequestIdle
    /\ IdsIdle
    /\ ParseIdle
    /\ WireIdle
    /\ TallyIdle
    /\ RouteIdle
    /\ ResIdle
    /\ TelIdle
    /\ EnricherIdle
    /\ stage \in {"openai", "anthropic"}
    /\ heap \in { StoreReq(<<>>, req, stage = "openai").h :
                     req \in IF stage = "openai" THEN HeapOpenAIRequests
                             ELSE AnthropicRequests }
    /\ cur = Len(heap)
    /\ arg = 0

HeapRest == <<mode, streamVars, handlerVars, reqVars, idVars, parseVars,
              wireVars, tallyVars, routeVars, resVars, telVars, enricherVars>>

\* one transformer call: the payload held is passed in, the result is held
Call(result, next) ==
    /\ \E res \in {result} :
          /\ heap' = res.h
          /\ cur' = res.r
    /\ arg' = cur
    /\ stage' = next
    /\ UNCHANGED HeapRest

RemoveTools ==
    /\ mode = "heap" /\ stage = "anthropic"
    /\ Call(HeapRemoveUnsupportedTools(heap, cur), "anthropicTools")

Convert ==
    /\ mode = "heap" /\ stage = "anthropicTools"
    /\ \E copy \in {"utils", "types"} :
          Call(HeapAnthropicToOpenAI(copy, heap, cur, FALSE), "done")

ReplaceImages ==
    /\ mode = "heap" /\ stage = "openai"
    /\ Call(HeapProcessOpenAIImagesInLastMessage(heap, cur), "openaiImages")

FilterEmpty ==
    /\ mode = "heap" /\ stage \in {"openai", "openaiImages"}
    /\ Call(HeapFilterEmptyAssistantMessages(heap, cur), "filtered")

NormalizeIds ==
    /\ mode = "heap" /\ stage = "filtered"
    /\ \E copy \in {"utils", "types"} :
          Call(HeapNormalizeOpenAIToolIds(copy, heap, cur), "done")

NextHeap == RemoveTools \/ Convert \/ ReplaceImages \/ FilterEmpty \/ NormalizeIds

SpecHeap == InitHeap /\ [][NextHeap]_vars

Children(h, S) == UNION {Range(h[a].refs) \ {0} : a \in S}

\* the objects of the payload at address a, nested ones included
Reach(h, a) ==
    LET s1 == {a} \cup Children(h, {a})
        s2 == s1 \cup Children(h, s1)
        s3 == s2 \cup Children(h, s2)
    IN  s3 \cup Children(h, s3)

\* C31: a transformer call leaves the payload passed in unchanged: the
\* request object, its messages array, every message, content block and
\* tool call reachable from it hold after the call what they held before.
C31_InputNotMutated ==
    [][mode = "heap" => \A a \in Reach(heap, cur) : heap'[a] = heap[a]]_vars

\* normalizeOpenAIToolIds has returned a payload that differs from the one
\* passed in and shares a message object with it
C31_Witness ==
    /\ mode = "heap" /\ stage = "done" /\ arg # cur
    /\ heap[cur].val.stream
    /\ \E i \in DOMAIN MessageRefs(heap, cur) :
           MessageRefs(heap, cur)[i] \in Range(MessageRefs(heap, arg))
    /\ LoadOReq(heap, cur) # LoadOReq(heap, arg)

-----------------------------------------------------------------------------
(* TelemetryCollector *)

\* "Keep only last 1000 entries in memory"
LogLimit == 1000

RecentLimit == 10

Usage(requestId, inputTokens_, outputTokens_, latencyMs) ==
    [requestId |-> requestId, inputTokens |-> inputTokens_,
     outputTokens |-> outputTokens_, latencyMs |-> latencyMs]

Latencies == {10, 20}

\* the usages a caller may record as its n-th since the reset
Usages(n) ==
    IF n <= MaxVaried
    THEN {Usage(n, 1, 1, 10), Usage(n, 100, 50, 20)}
    ELSE {Usage(n, 1, 1, 10)}

KeepLast_All(log) == log

\* if (this.usageLog.length > 1000) this.usageLog = this.usageLog.slice(-1000)
KeepLast(log) ==
    IF Len(log) > LogLimit
    THEN SubSeq(log, Len(log) - LogLimit + 1, Len(log))
    ELSE log

\* usageLog.reduce((sum, u) => sum + u.latencyMs, 0)
RECURSIVE SumLatency(_, _)
SumLatency(log, values) ==
    IF values = {} THEN 0
    ELSE LET v == CHOOSE x \in values : TRUE
         IN  v * Cardinality({i \in DOMAIN log : log[i].latencyMs = v})
                 + SumLatency(log, values \ {v})

\* a quotient of two numbers, kept as the pair
Quotient(num, den) == [isNull |-> FALSE, num |-> num, den |-> den]

NoAverage == [isNull |-> TRUE, num |-> 0, den |-> 1]

getStats ==
    [totalInputTokens |-> totalInputTokens,
     totalOutputTokens |-> totalOutputTokens,
     totalTokens |-> totalInputTokens + totalOutputTokens,
     requestCount |-> requestCount,
     avgInputTokens |-> IF requestCount > 0 THEN Quotient(totalInputTokens, requestCount)
                        ELSE Quotient(0, 1),
     avgOutputTokens |-> IF requestCount > 0 THEN Quotient(totalOutputTokens, requestCount)
                         ELSE Quotient(0, 1),
     avgDurationMs |-> IF Len(usageLog) > 0
                       THEN Quotient(SumLatency(usageLog, Latencies), Len(usageLog))
                       ELSE NoAverage,
     recentUsage |-> IF Len(usageLog) > RecentLimit
                     THEN SubSeq(usageLog, Len(usageLog) - RecentLimit + 1, Len(usageLog))
                     ELSE usageLog]

InitTelemetry ==
    /\ mode = "telemetry"
    /\ StreamIdle
    /\ HandlerIdle
    /\ RequestIdle
    /\ IdsIdle
    /\ ParseIdle
    /\ WireIdle
    /\ TallyIdle
    /\ RouteIdle
    /\ ResIdle
    /\ HeapIdle
    /\ EnricherIdle
    /\ telEnabled \in BOOLEAN
    /\ usageLog = <<>>
    /\ totalInputTokens = 0
    /\ totalOutputTokens = 0
    /\ requestCount = 0
    /\ recorded = <<>>
    /\ stats = <<>>

TelRest == <<mode, streamVars, handlerVars, reqVars, idVars, parseVars,
             wireVars, tallyVars, routeVars, resVars, heapVars, enricherVars, telEnabled>>

\* record(usage) of an enabled collector
Record ==
    /\ mode = "telemetry" /\ telEnabled /\ stats = <<>>
    /\ Len(recorded) < LogLimit + MaxExtra
    /\ \E usage \in Usages(Len(recorded) + 1) :
          /\ usageLog' = KeepLast(Append(usageLog, usage))
          /\ totalInputTokens' = totalInputTokens + usage.inputTokens
          /\ totalOutputTokens' = totalOutputTokens + usage.outputTokens
          /\ recorded' = Append(recorded, usage)
    /\ requestCount' = requestCount + 1
    /\ UNCHANGED <<TelRest, stats>>

\* record(usage) of a disabled collector returns at once
RecordDisabled ==
    /\ mode = "telemetry" /\ ~telEnabled /\ stats = <<>>
    /\ Len(recorded) < MaxVaried
    /\ \E usage \in Usages(Len(recorded) + 1) : recorded' = Append(recorded, usage)
    /\ UNCHANGED <<TelRest, usageLog, totalInputTokens, totalOutputTokens, requestCount, stats>>

GetStats ==
    /\ mode = "telemetry" /\ stats = <<>>
    /\ stats' = <<getStats>>
    /\ UNCHANGED <<TelRest, usageLog, totalInputTokens, totalOutputTokens, requestCount,
                   recorded>>

Reset ==
    /\ mode = "telemetry" /\ recorded # <<>>
    /\ usageLog' = <<>>
    /\ totalInputTokens' = 0
    /\ totalOutputTokens' = 0
    /\ requestCount' = 0
    /\ recorded' = <<>>
    /\ UNCHANGED <<TelRest, stats>>

NextTelemetry == Record \/ RecordDisabled \/ GetStats \/ Reset

SpecTelemetry == InitTelemetry /\ [][NextTelemetry]_vars

\* C32: the telemetry log never holds more than 1000 entries and is always
\* the most recent records, as many as fit, in the order they were recorded.
C32_LogIsLastThousand ==
    (mode = "telemetry" /\ telEnabled) =>
        /\ Len(usageLog) <= LogLimit
        /\ Len(usageLog) = Min(Len(recorded), LogLimit)
        /\ \A i \in DOMAIN usageLog :
               usageLog[i] = recorded[Len(recorded) - Len(usageLog) + i]

\* more than 1000 usages were recorded: the log starts at the second one
C32_Witness ==
    /\ mode = "telemetry" /\ telEnabled
    /\ Len(recorded) = LogLimit + 1
    /\ Len(usageLog) = LogLimit
    /\ usageLog[1].requestId = 2
    /\ usageLog[LogLimit].requestId = LogLimit + 1

\* the sum of a sequence of numbers drawn from a small set of values
RECURSIVE SumSeq(_, _)
SumSeq(nums, values) ==
    IF values = {} THEN 0
    ELSE LET v == CHOOSE x \in values : TRUE
         IN  v * Cardinality({i \in DOMAIN nums : nums[i] = v}) + SumSeq(nums, values \ {v})

TokenCounts == {1, 50, 100}

\* the quotient q is the mean of a population with this sum and size
IsMeanOf(q, sum, size) == ~q.isNull /\ q.num * size = sum * q.den

\* C39: the three averages of a snapshot are means over one population, the
\* requests counted by requestCount since the last reset, also once more
\* than 1000 of them have been recorded.
C39_AveragesOverAllRequests ==
    (mode = "telemetry" /\ telEnabled /\ stats # <<>> /\ recorded # <<>>
        /\ stats[1].requestCount = Len(recorded)) =>
        /\ IsMeanOf(stats[1].avgInputTokens,
                    SumSeq([i \in DOMAIN recorded |-> recorded[i].inputTokens], TokenCounts),
                    stats[1].requestCount)
        /\ IsMeanOf(stats[1].avgOutputTokens,
                    SumSeq([i \in DOMAIN recorded |-> recorded[i].outputTokens], TokenCounts),
                    stats[1].requestCount)
        /\ IsMeanOf(stats[1].avgDurationMs,
                    SumSeq([i \in DOMAIN recorded |-> recorded[i].latencyMs], Latencies),
                    stats[1].requestCount)

-----------------------------------------------------------------------------
(* SSEEnricher.  The upstream text is a sequence of tokens: the two line    *)
(* prefixes, the line feed, event names, JSON payloads and other text.  A    *)
(* chunk is a run of tokens; the buffer joins what a chunk boundary parted.  *)

LF == "\n"

EventLine == "event: "

DataLine == "data: "

\* JSON.parse of the text after "data: ": one json token parses, all else throws
JsonPayloads == {"{message_start}", "{message_start+usage}",
                 "{message_delta}", "{content_block_start}"}

IsJson(text) == Len(text) = 1 /\ text[1] \in JsonPayloads

\* event.type of a parsed json
EventType(json) ==
    CASE json \in {"{message_start}", "{message_start+usage}"} -> "message_start"
      [] json = "{message_delta}" -> "message_delta"
      [] OTHER -> "content_block_start"

\* the fields of an SSEEnricher but the buffer: options.estimatedInputTokens
\* and the three counters
EnricherStats(estimatedInputTokens, inputTokens_, outputTokens_, hasToolCalls) ==
    [estimatedInputTokens |-> estimatedInputTokens,
     inputTokens |-> inputTokens_, outputTokens |-> outputTokens_,
     hasToolCalls |-> hasToolCalls]

\* estimateRequestTokens(request.messages) of the requests followed
Estimates == {0, 3}

\* enrichEvent: the enriched json, <<>> for null, and the counters after it
enrichEvent(json, st) ==
    IF EventType(json) = "message_start"
    THEN [enriched |-> <<"{message_start+usage}">>,
          st |-> [st EXCEPT !.inputTokens = st.estimatedInputTokens]]
    ELSE [enriched |-> <<>>,
          st |-> [st EXCEPT
                    !.outputTokens = IF json = "{message_delta}" THEN 5 ELSE @,
                    !.hasToolCalls = IF json = "{content_block_start}" THEN TRUE ELSE @]]

\* text.split('\n')
RECURSIVE LinesOf(_, _)
LinesOf(text, line) ==
    IF text = <<>> THEN <<line>>
    ELSE IF Head(text) = LF THEN <<line>> \o LinesOf(Tail(text), <<>>)
    ELSE LinesOf(Tail(text), Append(line, Head(text)))

LineStartsWith(line, prefix) == line # <<>> /\ line[1] = prefix

\* the while loop of processChunk over the complete lines
RECURSIVE EnrichLines(_, _, _, _)
EnrichLines(lines, i, output, st) ==
    IF i > Len(lines) THEN [output |-> output, st |-> st]
    ELSE
      LET line == lines[i]
          paired == /\ LineStartsWith(line, EventLine)
                    /\ i + 1 <= Len(lines)
                    /\ LineStartsWith(lines[i + 1], DataLine)
      IN
      IF paired
      THEN LET nextLine == lines[i + 1]
               parsed == Tail(nextLine)
           IN  IF IsJson(parsed)
               THEN LET r == enrichEvent(parsed[1], st)
                    IN  IF r.enriched # <<>>
                        THEN EnrichLines(lines, i + 2,
                                 output \o <<EventLine, EventType(parsed[1]), LF, DataLine>>
                                        \o r.enriched \o <<LF, LF>>,
                                 r.st)
                        ELSE EnrichLines(lines, i + 2,
                                 output \o line \o <<LF>> \o nextLine \o <<LF, LF>>, r.st)
               ELSE EnrichLines(lines, i + 2,
                        output \o line \o <<LF>> \o nextLine \o <<LF, LF>>, st)
      ELSE EnrichLines(lines, i + 1,
               IF line # <<>> THEN output \o line \o <<LF>> ELSE output, st)

\* processChunk(chunk): the output, the new buffer and the counters
processChunk(chunk, buf, st) ==
    LET lines == LinesOf(buf \o chunk, <<>>)
        complete == SubSeq(lines, 1, Len(lines) - 1)
        r == EnrichLines(complete, 1, <<>>, st)
    IN  [output |-> r.output, buffer |-> lines[Len(lines)], st |-> r.st]

flush(buf) == IF buf # <<>> THEN buf \o <<LF>> ELSE <<>>

\* what the backend may send: whole frames, a data line without an event
\* line, a frame whose data is not JSON, and a last line without line feed
Frames ==
    { <<EventLine, "message_start", LF, DataLine, "{message_start}", LF, LF>>,
      <<EventLine, "message_delta", LF, DataLine, "{message_delta}", LF, LF>>,
      <<EventLine, "content_block_start", LF, DataLine, "{content_block_start}", LF, LF>>,
      <<EventLine, "ping", LF, DataLine, "text", LF, LF>>,
      <<DataLine, "text", LF, LF>>,
      <<"text">> }

RECURSIVE Flatten(_)
Flatten(frames) ==
    IF frames = <<>> THEN <<>> ELSE Head(frames) \o Flatten(Tail(frames))

UpstreamTexts == { Flatten(fs) : fs \in UNION {[1..n -> Frames] : n \in 1..MaxFrames} }

InitEnricher ==
    /\ mode = "enricher"
    /\ StreamIdle
    /\ HandlerIdle
    /\ RequestIdle
    /\ IdsIdle
    /\ ParseIdle
    /\ WireIdle
    /\ TallyIdle
    /\ RouteIdle
    /\ ResIdle
    /\ HeapIdle
    /\ TelIdle
    /\ upstreamText \in UpstreamTexts
    /\ delivered = 0
    /\ buffer = <<>>
    /\ enricherStats \in {<<EnricherStats(e, 0, 0, FALSE)>> : e \in Estimates}
    /\ yielded = <<>>
    /\ epc = "reading"

EnricherRest == <<mode, streamVars, handlerVars, reqVars, idVars, parseVars,
                  wireVars, tallyVars, routeVars, resVars, heapVars, telVars, upstreamText>>

\* reader.read() hands over the next chunk; processChunk; yield if not empty
ReadAndEnrich ==
    /\ mode = "enricher" /\ epc = "reading"
    /\ \E n \in 1..(Len(upstreamText) - delivered) :
         \E r \in {processChunk(SubSeq(upstreamText, delivered + 1, delivered + n),
                                buffer, enricherStats[1])} :
            /\ delivered' = delivered + n
            /\ buffer' = r.buffer
            /\ enricherStats' = <<r.st>>
            /\ yielded' = yielded \o r.output
    /\ UNCHANGED <<EnricherRest, epc>>

\* done: flush, yield what remains
ReadDoneAndFlush ==
    /\ mode = "enricher" /\ epc = "reading"
    /\ delivered = Len(upstreamText)
    /\ yielded' = yielded \o flush(buffer)
    /\ epc' = "done"
    /\ UNCHANGED <<EnricherRest, delivered, buffer, enricherStats>>

NextEnricher ==
    \/ ReadAndEnrich
    \/ ReadDoneAndFlush

SpecEnricher == InitEnricher /\ [][NextEnricher]_vars

\* the output for the whole text handed over as one chunk, then flush
OneChunk(text) ==
    LET r == processChunk(text, <<>>, EnricherStats(0, 0, 0, FALSE))
    IN  r.output \o flush(r.buffer)

\* C38: the output of the SSEEnricher does not depend on the chunking: for a
\* fixed upstream text the concatenation of all processChunk results followed
\* by flush is the same for every split into chunks.
C38_ChunkingIndependent ==
    (mode = "enricher" /\ epc = "done") => yielded = OneChunk(upstreamText)

-----------------------------------------------------------------------------
(* Deltas of the translated stream and the blocks they belong to *)

DeltasOf(events) == {i \in DOMAIN events : events[i].type = "content_block_delta"}

\* the content_block_start events before position i that carry its index
StartsBefore(events, i) ==
    {j \in StartsOf(events) : j < i /\ events[j].index = events[i].index}

LastStartBefore(events, i) ==
    CHOOSE j \in StartsBefore(events, i) : \A k \in StartsBefore(events, i) : k <= j

DeltaTypeOf(kind) == IF kind = "text" THEN "text_delta" ELSE "input_json_delta"

\* the block of the delta at position i has been started, has not been
\* stopped, and is of the delta's type
InOpenBlock(events, i) ==
    /\ StartsBefore(events, i) # {}
    /\ LET j == LastStartBefore(events, i)
       IN  /\ \A k \in (j + 1)..(i - 1) :
                  ~(events[k].type = "content_block_stop"
                      /\ events[k].index = events[i].index)
           /\ events[i].kind = DeltaTypeOf(events[j].kind)

\* C33: every content_block_delta goes to an index whose block has been
\* started and not yet stopped, and its delta type is that of the block.
C33_DeltaInOpenBlock ==
    mode = "stream" => \A i \in DeltasOf(out) : InOpenBlock(out, i)

\* the tool_use block started for slot k
SlotStart(events, k) ==
    CHOOSE j \in StartsOf(events) :
        events[j].kind = "tool_use" /\ events[j].name = ToolName(k)

\* partial_json of the input_json_delta events sent to the block of slot k
PartialJsonOf(events, k) ==
    LET Mine(e) == /\ e.type = "content_block_delta"
                   /\ e.kind = "input_json_delta"
                   /\ e.index = events[SlotStart(events, k)].index
        mine == SelectSeq(events, Mine)
    IN  Concat([i \in DOMAIN mine |-> mine[i].text])

\* C34: for each tool slot the partial_json of the deltas emitted for it,
\* concatenated, is the concatenation of the argument fragments received
\* for the slot, the fragment of the opening delta included.
C34_ArgumentsPreserved ==
    (mode = "stream" /\ ~InlineToolCall) =>
        \A k \in DOMAIN toolCalls : PartialJsonOf(out, k) = toolCalls[k].arguments

====
